---- MODULE Spec2Model ----
(***************************************************************************)
(* PortFinder: the port probe, the sequential and the parallel scanner,    *)
(* the validator registry and the findPort / findPorts wrappers.           *)
(*                                                                         *)
(* One call of an exported function is followed from its invocation to the *)
(* settlement of its promise.  Every await of the source is a suspension   *)
(* point: the environment may bind or release a port there.                *)
(***************************************************************************)
EXTENDS Integers, Sequences, FiniteSets, TLC

\* ------------------------------------------------------------------------
\* Program constants
\* ------------------------------------------------------------------------
MIN_PORT == 1
MAX_PORT == 65535
PRIVILEGED_LIMIT == 1024
DEFAULT_MAX_CONCURRENCY == 100

\* ------------------------------------------------------------------------
\* Bounds of the model
\* ------------------------------------------------------------------------
NumPorts == 3
MaxCount == 2
MaxConc == 2
MaxValidators == 1
MaxEnvChanges == 1
NumCallers == 2

\* The scanned universe straddles the privileged-port boundary.
PortLo == PRIVILEGED_LIMIT - 2
Ports == PortLo .. (PortLo + NumPorts - 1)

\* Endpoints handed to findPort / findPorts: the universe and the two
\* nearest values validatePort rejects.
InputPorts == Ports \cup {MIN_PORT - 1, MAX_PORT + 1}

COMMON_PORTS ==
  {20, 21, 22, 23, 25, 53, 67, 68, 69, 80, 110, 119, 123, 143, 161, 162,
   179, 194, 389, 443, 445, 465, 514, 515, 587, 636, 873, 902, 989, 990,
   993, 995, 1080, 1194, 1433, 1434, 1521, 1723, 2049, 2082, 2083, 2086,
   2087, 2095, 2096, 2181, 3000, 3001, 3128, 3306, 3389, 3690, 4000, 4001,
   4002, 4003, 4004, 4005, 4006, 4007, 4008, 4009, 5000, 5001, 5060, 5061,
   5432, 5900, 5984, 5985, 6379, 6666, 6667, 6668, 6669, 7000, 7001, 7002,
   8000, 8001, 8008, 8009, 8080, 8081, 8082, 8083, 8084, 8085, 8086, 8087,
   8088, 8089, 8090, 8091, 8092, 8093, 8094, 8095, 8096, 8097, 8098, 8099,
   8443, 8444, 8880, 8888, 9000, 9001, 9090, 9091, 9200, 9300, 9418, 9999,
   10000, 10001, 10002, 10003, 10004, 10005, 11211, 15672, 25565, 25575,
   27017, 27018, 27019, 28017, 33848, 35357}

\* Names of the built-in predicates, and the names callers register custom
\* predicates under and use in validator lists: "privileged" has a built-in
\* that a custom predicate can shadow, "even" resolves only while a custom
\* predicate is registered under it.
BuiltInNames == {"common-ports", "privileged"}
CustomNames == {"privileged", "even"}
ListNames == CustomNames

\* Predicate functions a caller registers (tests/validators.test.ts:264).
CustomFns == {"isEven"}

VARIABLES
  validators,        \* custom registry: name -> function or "undefined"
  free,              \* ports on which a listen would succeed right now
  api,               \* exported function being executed ("idle" before)
  pc,                \* position inside the call
  start, end, exclude, validator, count, consecutive, maxConcurrency,
  port,              \* loop variable of scanPorts
  found,             \* accumulated result of the scanner
  consecutiveStart, consecutiveCount,
  ports,             \* candidate list of scanPortsParallel
  i,                 \* window offset of scanPortsParallel (0-based)
  batch,             \* current window
  results,           \* settled probes of the window: index -> "pending"/"true"/"false"
  outcome,           \* settlement of the call's promise
  probeLog,          \* history: probes settled during this call
  envChanges,        \* history: environment changes during this call
  input,             \* the numbers the caller passed, before any validation
  cp,                \* checkPort calls followed at the level of the socket
  sockets,           \* server sockets those calls hold on a port
  called,            \* history: predicates applyValidators invoked, in order
  cli,               \* the command-line process: argv, options, output, exit
  evaluated          \* history: ports handed to the scan's predicate, in order

vars == <<validators, free, api, pc, start, end, exclude, validator, count,
          consecutive, maxConcurrency, port, found, consecutiveStart,
          consecutiveCount, ports, i, batch, results, outcome, probeLog,
          envChanges, input, cp, sockets, called, cli, evaluated>>

argVars == <<start, end, exclude, validator, count, consecutive, maxConcurrency>>
seqVars == <<port, consecutiveStart, consecutiveCount>>
parVars == <<ports, i, batch, results>>
netVars == <<cp, sockets>>

\* ------------------------------------------------------------------------
\* Validators (validators module)
\* ------------------------------------------------------------------------

\* Body of a predicate function applied to a port, as the truthiness of
\* what it returns.  Object.prototype.toString called without a receiver
\* returns the string "[object Undefined]", which is truthy.
CallFn(fn, p) ==
  CASE fn = "common-ports" -> p \notin COMMON_PORTS
    [] fn = "privileged"   -> p >= PRIVILEGED_LIMIT
    [] fn = "isEven"       -> p % 2 = 0
    [] fn = "Object.prototype.toString" -> TRUE

\* Both registries are object literals, so a property read that finds no
\* own property continues on Object.prototype.
ObjectPrototypeNames == {"toString"}

Inherited(name) ==
  IF name \in ObjectPrototypeNames THEN "Object.prototype.toString"
  ELSE "undefined"

\* builtInValidators[name]
builtInValidators(name) ==
  IF name \in BuiltInNames THEN name ELSE Inherited(name)

\* getValidator(name): validators[name] || builtInValidators[name]
getValidator(name) ==
  LET own == IF name \in DOMAIN validators /\ validators[name] # "undefined"
             THEN validators[name]
             ELSE Inherited(name)
  IN IF own # "undefined" THEN own ELSE builtInValidators(name)

\* applyValidators(port, validatorNames): "true", "false", or "throw"
\* (Error 'Unknown validator').
RECURSIVE applyValidators(_, _)
applyValidators(p, validatorNames) ==
  IF validatorNames = <<>> THEN "true"
  ELSE LET fn == getValidator(Head(validatorNames)) IN
       IF fn = "undefined" THEN "throw"
       ELSE IF ~CallFn(fn, p) THEN "false"
       ELSE applyValidators(p, Tail(validatorNames))

\* Variant of applyValidatorsCalls: the loop goes on after a rejection.
RECURSIVE applyValidatorsCalls_NoShortCircuit(_, _)
applyValidatorsCalls_NoShortCircuit(p, validatorNames) ==
  IF validatorNames = <<>> THEN <<>>
  ELSE LET fn == getValidator(Head(validatorNames)) IN
       IF fn = "undefined" THEN <<>>
       ELSE <<fn>> \o applyValidatorsCalls_NoShortCircuit(p, Tail(validatorNames))

\* The predicates the loop of applyValidators(port, validatorNames) invokes,
\* in the order it invokes them.
RECURSIVE applyValidatorsCalls(_, _)
applyValidatorsCalls(p, validatorNames) ==
  IF validatorNames = <<>> THEN <<>>
  ELSE LET fn == getValidator(Head(validatorNames)) IN
       IF fn = "undefined" THEN <<>>
       ELSE IF ~CallFn(fn, p) THEN <<fn>>
       ELSE <<fn>> \o applyValidatorsCalls(p, Tail(validatorNames))

\* validator && !validator(port), as the scanners evaluate it:
\* "true" (port passes), "false" (port rejected) or "throw".
CallValidator(v, p) ==
  IF ~v.defined THEN "true" ELSE applyValidators(p, v.names)

\* ------------------------------------------------------------------------
\* Input validation (core module)
\* ------------------------------------------------------------------------

\* validatePort / validatePortRange on integers (Number.isInteger holds).
validatePort(p) ==
  IF p < MIN_PORT \/ p > MAX_PORT THEN "INVALID_PORT" ELSE "ok"

validatePortRange(s, e) ==
  IF validatePort(s) # "ok" THEN "INVALID_PORT"
  ELSE IF validatePort(e) # "ok" THEN "INVALID_PORT"
  ELSE IF s > e THEN "INVALID_RANGE"
  ELSE "ok"

\* A number as a caller passes it: the integer val, or a value that
\* Number.isInteger rejects (val + 1/2 stands for all of them).
Whole(n) == [integer |-> TRUE, val |-> n]
Half(n) == [integer |-> FALSE, val |-> n]
NumberIsInteger(v) == v.integer

\* Variant of validatePortValue: the Number.isInteger test is missing.
validatePortValue_NoIntegerTest(v) == validatePort(v.val)

\* validatePort on any number:
\* !Number.isInteger(port) || port < MIN_PORT || port > MAX_PORT
validatePortValue(v) ==
  IF ~NumberIsInteger(v) THEN "INVALID_PORT" ELSE validatePort(v.val)

\* Variant of validatePortRangeValue: the order is tested before the ports.
validatePortRangeValue_OrderFirst(s, e) ==
  IF s.val > e.val THEN "INVALID_RANGE"
  ELSE IF validatePortValue(s) # "ok" THEN "INVALID_PORT"
  ELSE IF validatePortValue(e) # "ok" THEN "INVALID_PORT"
  ELSE "ok"

\* validatePortRange on any two numbers; start > end is only reached with
\* two integers.
validatePortRangeValue(s, e) ==
  IF validatePortValue(s) # "ok" THEN "INVALID_PORT"
  ELSE IF validatePortValue(e) # "ok" THEN "INVALID_PORT"
  ELSE IF s.val > e.val THEN "INVALID_RANGE"
  ELSE "ok"

\* ------------------------------------------------------------------------
\* Port probe
\* ------------------------------------------------------------------------

\* checkPort(port, host): 'listening' resolves true, 'error' and a
\* synchronous listen exception resolve false.
checkPort(p) == p \in free

\* ------------------------------------------------------------------------
\* Helpers
\* ------------------------------------------------------------------------
NameLists == UNION {[1..n -> ListNames] : n \in 0..MaxValidators}

NoValidator == [defined |-> FALSE, names |-> <<>>]
Closure(names) == [defined |-> TRUE, names |-> names]

\* validators.length > 0 ? (port) => applyValidators(port, validators) : undefined
MakeValidator(names) ==
  IF Len(names) > 0 THEN Closure(names) ELSE NoValidator

Pending == [kind |-> "pending"]

\* Array.prototype.slice(a, b) for 0 <= a on a sequence
Slice(s, a, b) ==
  LET hi == IF b > Len(s) THEN Len(s) ELSE b
  IN [k \in 1..(IF hi > a THEN hi - a ELSE 0) |-> s[a + k]]

\* Variant of Block: the loop pushes consecutiveStart without adding i.
Block_Repeat(first, n) == [k \in 1..n |-> first]

\* consecutiveStart + i for i = 0 .. count-1
Block(first, n) == [k \in 1..n |-> first + k - 1]

\* ------------------------------------------------------------------------
\* Initial state
\* ------------------------------------------------------------------------

\* No checkPort call made yet by a caller of the socket-level model.
NoCall ==
  [stage |-> "idle", port |-> 0, event |-> "none", result |-> "pending",
   resolves |-> 0, blockedBy |-> "none", repeat |-> FALSE]

Callers == 1..NumCallers

\* The command line has not been started.
NoCli == [stage |-> "none"]

\* Everything but the environment.
InitState ==
  /\ validators = [n \in CustomNames |-> "undefined"]
  /\ api = "idle"
  /\ pc = "idle"
  /\ start = 0 /\ end = 0 /\ exclude = {} /\ validator = NoValidator
  /\ count = 0 /\ consecutive = FALSE /\ maxConcurrency = 0
  /\ port = 0 /\ found = <<>>
  /\ consecutiveStart = -1 /\ consecutiveCount = 0
  /\ ports = <<>> /\ i = 0 /\ batch = <<>> /\ results = <<>>
  /\ outcome = Pending
  /\ probeLog = {}
  /\ envChanges = 0
  /\ input = <<>>
  /\ cp = [c \in Callers |-> NoCall]
  /\ sockets = {}
  /\ called = <<>>
  /\ cli = NoCli
  /\ evaluated = <<>>

Init == free \in SUBSET Ports /\ InitState


\* ------------------------------------------------------------------------
\* Validator registry operations (callable while no scan is running)
\* ------------------------------------------------------------------------

\* addValidator(name, validate): validators[name] = validate
AddValidator(name, fn) ==
  /\ pc = "idle"
  /\ validators' = [validators EXCEPT ![name] = fn]
  /\ UNCHANGED <<free, api, pc, argVars, seqVars, parVars, found, outcome,
                 probeLog, envChanges>>
  /\ UNCHANGED <<input, netVars, called, cli, evaluated>>

\* removeValidator(name): delete validators[name]
RemoveValidator(name) ==
  /\ pc = "idle"
  /\ validators' = [validators EXCEPT ![name] = "undefined"]
  /\ UNCHANGED <<free, api, pc, argVars, seqVars, parVars, found, outcome,
                 probeLog, envChanges>>
  /\ UNCHANGED <<input, netVars, called, cli, evaluated>>

\* ------------------------------------------------------------------------
\* Environment: another process binds or releases a port of the scanned
\* range while the call is suspended on a probe (ports outside the range
\* are never observed by the call).
\* ------------------------------------------------------------------------
EnvChange(p) ==
  /\ pc \in {"seq_await", "par_await"}
  /\ envChanges < MaxEnvChanges
  /\ p >= start /\ p <= end
  /\ free' = IF p \in free THEN free \ {p} ELSE free \cup {p}
  /\ envChanges' = envChanges + 1
  /\ UNCHANGED <<validators, api, pc, argVars, seqVars, parVars, found,
                 outcome, probeLog>>
  /\ UNCHANGED <<input, netVars, called, cli, evaluated>>

\* ------------------------------------------------------------------------
\* Entry of the two scanners
\* ------------------------------------------------------------------------

\* Locals of scanPorts at function entry.
EnterScanPorts(s, e, x, v, c, cons) ==
  /\ start' = s /\ end' = e /\ exclude' = x /\ validator' = v
  /\ count' = c /\ consecutive' = cons
  /\ found' = <<>>
  /\ consecutiveStart' = -1
  /\ consecutiveCount' = 0
  /\ port' = s
  /\ pc' = "seq_loop"
  /\ UNCHANGED <<maxConcurrency, parVars>>

\* Locals of scanPortsParallel at function entry.
EnterScanPortsParallel(s, e, x, v, c, mc) ==
  /\ start' = s /\ end' = e /\ exclude' = x /\ validator' = v
  /\ count' = c /\ maxConcurrency' = mc
  /\ found' = <<>>
  /\ ports' = <<>>
  /\ pc' = "par_filter"
  /\ UNCHANGED <<consecutive, seqVars, i, batch, results>>

\* A caller invokes the exported scanPorts.
CallScanPorts(s, e, x, v, c, cons) ==
  /\ pc = "idle"
  /\ api' = "scanPorts"
  /\ EnterScanPorts(s, e, x, v, c, cons)
  /\ UNCHANGED <<validators, free, outcome, probeLog, envChanges>>
  /\ UNCHANGED <<input, netVars, called, cli, evaluated>>

\* A caller invokes the exported scanPortsParallel.
CallScanPortsParallel(s, e, x, v, c, mc) ==
  /\ pc = "idle"
  /\ api' = "scanPortsParallel"
  /\ EnterScanPortsParallel(s, e, x, v, c, mc)
  /\ UNCHANGED <<validators, free, outcome, probeLog, envChanges>>
  /\ UNCHANGED <<input, netVars, called, cli, evaluated>>

\* ------------------------------------------------------------------------
\* findPort / findPorts up to the scanner call
\* ------------------------------------------------------------------------
Rejected(code, details) ==
  [kind |-> "rejected", name |-> "PortFinderError", code |-> code,
   details |-> details]

UnknownValidator ==
  [kind |-> "rejected", name |-> "Error", code |-> "Unknown validator",
   details |-> <<>>]

Resolved(value) == [kind |-> "resolved", value |-> value]

\* Details of the error validatePortRange throws.
RangeErrorDetails(s, e) ==
  IF validatePortValue(s) # "ok" THEN [port |-> s]
  ELSE IF validatePortValue(e) # "ok" THEN [port |-> e]
  ELSE [start |-> s, end |-> e]

\* (The caller of CallFindPort and CallFindPorts says what becomes of cli.)
\* findPort(options) until the await of scanPortsParallel; start and end
\* are the numbers of the options.
CallFindPort(s, e, x, names) ==
  /\ pc = "idle"
  /\ api' = "findPort"
  /\ input' = [start |-> s, end |-> e]
  /\ IF validatePortRangeValue(s, e) # "ok"
     THEN /\ outcome' = Rejected(validatePortRangeValue(s, e),
                                 RangeErrorDetails(s, e))
          /\ pc' = "done"
          /\ start' = s.val /\ end' = e.val
          /\ UNCHANGED <<exclude, validator, count, consecutive,
                         maxConcurrency, seqVars, parVars, found>>
     ELSE /\ EnterScanPortsParallel(s.val, e.val, x, MakeValidator(names), 1,
                                    DEFAULT_MAX_CONCURRENCY)
          /\ UNCHANGED outcome
  /\ UNCHANGED <<validators, free, probeLog, envChanges, netVars>>
  /\ UNCHANGED <<called, evaluated>>

\* findPorts(count, options) until the await of the scanner
CallFindPorts(c, s, e, x, names, cons) ==
  /\ pc = "idle"
  /\ api' = "findPorts"
  /\ input' = [count |-> c, start |-> s, end |-> e]
  /\ IF ~NumberIsInteger(c) \/ c.val <= 0
     THEN /\ outcome' = Rejected("INVALID_COUNT", [count |-> c])
          /\ pc' = "done"
          /\ count' = c.val
          /\ UNCHANGED <<start, end, exclude, validator, consecutive,
                         maxConcurrency, seqVars, parVars, found>>
     ELSE IF validatePortRangeValue(s, e) # "ok"
     THEN /\ outcome' = Rejected(validatePortRangeValue(s, e),
                                 RangeErrorDetails(s, e))
          /\ pc' = "done"
          /\ start' = s.val /\ end' = e.val /\ count' = c.val
          /\ UNCHANGED <<exclude, validator, consecutive, maxConcurrency,
                         seqVars, parVars, found>>
     ELSE IF cons
     THEN /\ EnterScanPorts(s.val, e.val, x, MakeValidator(names), c.val, TRUE)
          /\ UNCHANGED outcome
     ELSE /\ EnterScanPortsParallel(s.val, e.val, x, MakeValidator(names),
                                    c.val, DEFAULT_MAX_CONCURRENCY)
          /\ UNCHANGED outcome
  /\ UNCHANGED <<validators, free, probeLog, envChanges, netVars>>
  /\ UNCHANGED <<called, evaluated>>


\* ------------------------------------------------------------------------
\* scanPorts: one action per path through the loop body
\* ------------------------------------------------------------------------

\* Variant of SeqLoopCond: the range is taken as end-exclusive.
SeqLoopCond_ExclusiveEnd == port < end /\ Len(found) < count

\* validator && !validator(port): the port is handed to the predicate when
\* there is one.
Evaluate(p) == IF validator.defined THEN Append(evaluated, p) ELSE evaluated

\* Variant of SeqLoopCond: the result length is not tested.
SeqLoopCond_NoCountTest == port <= end

\* for-condition: port <= end && found.length < count
SeqLoopCond == port <= end /\ Len(found) < count

\* Variant of SeqExit: a run that is still open is returned.
SeqExit_FlushesRun ==
  /\ pc = "seq_loop"
  /\ ~SeqLoopCond
  /\ found' = IF consecutive /\ consecutiveCount > 0
              THEN Block(consecutiveStart, consecutiveCount)
              ELSE found
  /\ pc' = "return"
  /\ UNCHANGED <<validators, free, api, argVars, seqVars, parVars,
                 outcome, probeLog, envChanges>>
  /\ UNCHANGED <<input, netVars, called, cli, evaluated>>

\* The loop condition fails: return found.
SeqExit ==
  /\ pc = "seq_loop"
  /\ ~SeqLoopCond
  /\ pc' = "return"
  /\ UNCHANGED <<validators, free, api, argVars, seqVars, parVars, found,
                 outcome, probeLog, envChanges>>
  /\ UNCHANGED <<input, netVars, called, cli, evaluated>>

\* Variant of SeqSkipExcluded: the port after an excluded one is skipped too.
SeqSkipExcluded_SkipsNext ==
  /\ pc = "seq_loop"
  /\ SeqLoopCond
  /\ port \in exclude
  /\ consecutiveCount' = 0
  /\ port' = port + 2
  /\ UNCHANGED <<validators, free, api, pc, argVars, consecutiveStart,
                 parVars, found, outcome, probeLog, envChanges>>
  /\ UNCHANGED <<input, netVars, called, cli, evaluated>>

\* Variant of SeqSkipExcluded: an excluded port does not reset the run.
SeqSkipExcluded_NoReset ==
  /\ pc = "seq_loop"
  /\ SeqLoopCond
  /\ port \in exclude
  /\ port' = port + 1
  /\ UNCHANGED <<validators, free, api, pc, argVars, consecutiveStart,
                 consecutiveCount, parVars, found, outcome, probeLog,
                 envChanges>>
  /\ UNCHANGED <<input, netVars, called, cli, evaluated>>

\* Variant of SeqSkipExcluded: the skipped port is taken out of the set.
SeqSkipExcluded_ConsumesExclusion ==
  /\ pc = "seq_loop"
  /\ SeqLoopCond
  /\ port \in exclude
  /\ consecutiveCount' = 0
  /\ port' = port + 1
  /\ exclude' = exclude \ {port}
  /\ UNCHANGED <<validators, free, api, pc, start, end, validator, count,
                 consecutive, maxConcurrency, consecutiveStart,
                 parVars, found, outcome, probeLog, envChanges>>
  /\ UNCHANGED <<input, netVars, called, cli, evaluated>>

\* exclude.has(port): reset the run, continue.
SeqSkipExcluded ==
  /\ pc = "seq_loop"
  /\ SeqLoopCond
  /\ port \in exclude
  /\ consecutiveCount' = 0
  /\ port' = port + 1
  /\ UNCHANGED <<validators, free, api, pc, argVars, consecutiveStart,
                 parVars, found, outcome, probeLog, envChanges>>
  /\ UNCHANGED <<input, netVars, called, cli, evaluated>>

\* Variant of SeqSkipRejected: a rejected port does not reset the run.
SeqSkipRejected_NoReset ==
  /\ pc = "seq_loop"
  /\ SeqLoopCond
  /\ port \notin exclude
  /\ CallValidator(validator, port) = "false"
  /\ port' = port + 1
  /\ UNCHANGED <<validators, free, api, pc, argVars, consecutiveStart,
                 consecutiveCount, parVars, found, outcome, probeLog,
                 envChanges>>
  /\ UNCHANGED <<input, netVars, called, cli>>
  /\ evaluated' = Evaluate(port)

\* validator && !validator(port): reset the run, continue.
SeqSkipRejected ==
  /\ pc = "seq_loop"
  /\ SeqLoopCond
  /\ port \notin exclude
  /\ CallValidator(validator, port) = "false"
  /\ consecutiveCount' = 0
  /\ port' = port + 1
  /\ UNCHANGED <<validators, free, api, pc, argVars, consecutiveStart,
                 parVars, found, outcome, probeLog, envChanges>>
  /\ UNCHANGED <<input, netVars, called, cli>>
  /\ evaluated' = Evaluate(port)

\* validator(port) throws: the scanner's promise rejects, and with it the
\* promise of the findPorts call awaiting it.
SeqValidatorThrows ==
  /\ pc = "seq_loop"
  /\ SeqLoopCond
  /\ port \notin exclude
  /\ CallValidator(validator, port) = "throw"
  /\ outcome' = UnknownValidator
  /\ pc' = "done"
  /\ UNCHANGED <<validators, free, api, argVars, seqVars, parVars, found,
                 probeLog, envChanges>>
  /\ UNCHANGED <<input, netVars, called, cli>>
  /\ evaluated' = Evaluate(port)

\* Variant of SeqIssueProbe: the port is probed before the predicate is
\* consulted.
SeqIssueProbe_BeforeValidator ==
  /\ pc = "seq_loop"
  /\ SeqLoopCond
  /\ port \notin exclude
  /\ pc' = "seq_await"
  /\ UNCHANGED <<validators, free, api, argVars, seqVars, parVars, found,
                 outcome, probeLog, envChanges>>
  /\ UNCHANGED <<input, netVars, called, cli, evaluated>>

\* await checkPort(port, host): the probe is issued and the scan suspends.
SeqIssueProbe ==
  /\ pc = "seq_loop"
  /\ SeqLoopCond
  /\ port \notin exclude
  /\ CallValidator(validator, port) = "true"
  /\ pc' = "seq_await"
  /\ UNCHANGED <<validators, free, api, argVars, seqVars, parVars, found,
                 outcome, probeLog, envChanges>>
  /\ UNCHANGED <<input, netVars, called, cli>>
  /\ evaluated' = Evaluate(port)

\* if (consecutiveCount === 0) consecutiveStart = port
RunStart(p) == IF consecutiveCount = 0 THEN p ELSE consecutiveStart

\* Variant of SeqProbeSettle: an unavailable port does not reset the run.
SeqProbeSettle_NoResetOnBusy ==
  /\ pc = "seq_await"
  /\ LET available == checkPort(port)
         cs == RunStart(port)
         cc == consecutiveCount + 1
     IN
     /\ probeLog' = probeLog \cup {[port |-> port, available |-> available]}
     /\ IF available
        THEN IF consecutive
             THEN /\ consecutiveStart' = cs
                  /\ consecutiveCount' = cc
                  /\ IF cc = count
                     THEN /\ found' = found \o Block(cs, count)
                          /\ pc' = "return"
                          /\ UNCHANGED port
                     ELSE /\ port' = port + 1
                          /\ pc' = "seq_loop"
                          /\ UNCHANGED found
             ELSE /\ found' = Append(found, port)
                  /\ port' = port + 1
                  /\ pc' = "seq_loop"
                  /\ UNCHANGED <<consecutiveStart, consecutiveCount>>
        ELSE /\ port' = port + 1
             /\ pc' = "seq_loop"
             /\ UNCHANGED <<consecutiveStart, consecutiveCount, found>>
  /\ UNCHANGED <<validators, free, api, argVars, parVars, outcome, envChanges>>
  /\ UNCHANGED <<input, netVars, called, cli, evaluated>>

\* The probe settles and the rest of the loop body runs.
SeqProbeSettle ==
  /\ pc = "seq_await"
  /\ LET available == checkPort(port)
         cs == RunStart(port)
         cc == consecutiveCount + 1
     IN
     /\ probeLog' = probeLog \cup {[port |-> port, available |-> available]}
     /\ IF available
        THEN IF consecutive
             THEN /\ consecutiveStart' = cs
                  /\ consecutiveCount' = cc
                  /\ IF cc = count
                     THEN /\ found' = found \o Block(cs, count)
                          /\ pc' = "return"
                          /\ UNCHANGED port
                     ELSE /\ port' = port + 1
                          /\ pc' = "seq_loop"
                          /\ UNCHANGED found
             ELSE /\ found' = Append(found, port)
                  /\ port' = port + 1
                  /\ pc' = "seq_loop"
                  /\ UNCHANGED <<consecutiveStart, consecutiveCount>>
        ELSE /\ consecutiveCount' = 0
             /\ port' = port + 1
             /\ pc' = "seq_loop"
             /\ UNCHANGED <<consecutiveStart, found>>
  /\ UNCHANGED <<validators, free, api, argVars, parVars, outcome, envChanges>>
  /\ UNCHANGED <<input, netVars, called, cli, evaluated>>

\* ------------------------------------------------------------------------
\* scanPortsParallel
\* ------------------------------------------------------------------------

\* start, start+1, ..., end as a sequence (empty when start > end)
RangeSeq(s, e) == [k \in 1..(IF e >= s THEN e - s + 1 ELSE 0) |-> s + k - 1]

\* Variants of Candidate: the filter pass omits one of its two tests.
Candidate_IgnoresExclude(p) == CallValidator(validator, p) = "true"
Candidate_IgnoresValidator(p) == p \notin exclude

\* !exclude.has(port) && (!validator || validator(port))
Candidate(p) == p \notin exclude /\ CallValidator(validator, p) = "true"

\* Variant of FilterCalls: the predicate is consulted before the Exclusion
\* Set.
RECURSIVE FilterCalls_PredicateFirst(_, _)
FilterCalls_PredicateFirst(p, e) ==
  IF p > e THEN <<>>
  ELSE IF ~validator.defined THEN FilterCalls_PredicateFirst(p + 1, e)
  ELSE IF CallValidator(validator, p) = "throw" THEN <<p>>
  ELSE <<p>> \o FilterCalls_PredicateFirst(p + 1, e)

\* The ports the filter pass hands to the predicate, from port p on:
\* !exclude.has(port) && (!validator || validator(port)) short-circuits, and
\* a throwing predicate ends the pass.
RECURSIVE FilterCalls(_, _)
FilterCalls(p, e) ==
  IF p > e THEN <<>>
  ELSE IF p \in exclude \/ ~validator.defined THEN FilterCalls(p + 1, e)
  ELSE IF CallValidator(validator, p) = "throw" THEN <<p>>
  ELSE <<p>> \o FilterCalls(p + 1, e)

\* Does the filter pass throw? (validator is only called on non-excluded ports)
FilterThrows ==
  \E p \in start..end : p \notin exclude /\ CallValidator(validator, p) = "throw"

\* The filter pass: builds the candidate list, no probing.
ParFilter ==
  /\ pc = "par_filter"
  /\ IF FilterThrows
     THEN /\ outcome' = UnknownValidator
          /\ pc' = "done"
          /\ UNCHANGED <<ports, i>>
     ELSE /\ ports' = SelectSeq(RangeSeq(start, end), Candidate)
          /\ i' = 0
          /\ pc' = "par_loop"
          /\ UNCHANGED outcome
  /\ UNCHANGED <<validators, free, api, argVars, seqVars, batch, results,
                 found, probeLog, envChanges>>
  /\ UNCHANGED <<input, netVars, called, cli>>
  /\ evaluated' = FilterCalls(start, end)

\* for-condition: i < ports.length && found.length < count
ParLoopCond == i < Len(ports) /\ Len(found) < count

ParExit ==
  /\ pc = "par_loop"
  /\ ~ParLoopCond
  /\ pc' = "return"
  /\ UNCHANGED <<validators, free, api, argVars, seqVars, parVars, found,
                 outcome, probeLog, envChanges>>
  /\ UNCHANGED <<input, netVars, called, cli, evaluated>>

\* Variant of ParIssueWindow: every window starts at the first candidate.
ParIssueWindow_FromFirst ==
  /\ pc = "par_loop"
  /\ ParLoopCond
  /\ batch' = Slice(ports, 0, i + maxConcurrency)
  /\ results' = [k \in 1..Len(batch') |-> "pending"]
  /\ pc' = "par_await"
  /\ UNCHANGED <<validators, free, api, argVars, seqVars, ports, i, found,
                 outcome, probeLog, envChanges>>
  /\ UNCHANGED <<input, netVars, called, cli, evaluated>>

\* Variant of ParIssueWindow: the window takes every remaining candidate.
ParIssueWindow_WholeRest ==
  /\ pc = "par_loop"
  /\ ParLoopCond
  /\ batch' = Slice(ports, i, Len(ports))
  /\ results' = [k \in 1..Len(batch') |-> "pending"]
  /\ pc' = "par_await"
  /\ UNCHANGED <<validators, free, api, argVars, seqVars, ports, i, found,
                 outcome, probeLog, envChanges>>
  /\ UNCHANGED <<input, netVars, called, cli, evaluated>>

\* batch = ports.slice(i, i + maxConcurrency); every probe of the window
\* is issued; the scan suspends on Promise.all.
ParIssueWindow ==
  /\ pc = "par_loop"
  /\ ParLoopCond
  /\ batch' = Slice(ports, i, i + maxConcurrency)
  /\ results' = [k \in 1..Len(batch') |-> "pending"]
  /\ pc' = "par_await"
  /\ UNCHANGED <<validators, free, api, argVars, seqVars, ports, i, found,
                 outcome, probeLog, envChanges>>
  /\ UNCHANGED <<input, netVars, called, cli, evaluated>>

\* Variant of ParProbeSettle: an available port is pushed to the result
\* as soon as its probe settles.
ParProbeSettle_PushesOnSettle(k) ==
  /\ pc = "par_await"
  /\ k \in 1..Len(batch)
  /\ results[k] = "pending"
  /\ LET available == checkPort(batch[k]) IN
     /\ results' = [results EXCEPT ![k] = "false"]
     /\ found' = IF available /\ Len(found) < count
                 THEN Append(found, batch[k]) ELSE found
     /\ probeLog' = probeLog \cup {[port |-> batch[k], available |-> available]}
  /\ UNCHANGED <<validators, free, api, pc, argVars, seqVars, ports, i, batch,
                 outcome, envChanges>>
  /\ UNCHANGED <<input, netVars, called, cli, evaluated>>

\* One probe of the window settles (in any order).
ParProbeSettle(k) ==
  /\ pc = "par_await"
  /\ k \in 1..Len(batch)
  /\ results[k] = "pending"
  /\ LET available == checkPort(batch[k]) IN
     /\ results' = [results EXCEPT ![k] = IF available THEN "true" ELSE "false"]
     /\ probeLog' = probeLog \cup {[port |-> batch[k], available |-> available]}
  /\ UNCHANGED <<validators, free, api, pc, argVars, seqVars, ports, i, batch,
                 found, outcome, envChanges>>
  /\ UNCHANGED <<input, netVars, called, cli, evaluated>>

\* Variant of Collect: every available port of the window is appended.
RECURSIVE Collect_NoLimit(_, _, _, _)
Collect_NoLimit(f, b, r, c) ==
  IF b = <<>> THEN f
  ELSE Collect_NoLimit(IF r[1] = "true" THEN Append(f, b[1]) ELSE f,
                       Tail(b), Tail(r), c)

\* for (const {port, available} of results)
\*   if (available && found.length < count) found.push(port)
RECURSIVE Collect(_, _, _, _)
Collect(f, b, r, c) ==
  IF b = <<>> THEN f
  ELSE Collect(IF r[1] = "true" /\ Len(f) < c THEN Append(f, b[1]) ELSE f,
               Tail(b), Tail(r), c)

\* Variant of ParJoin: the loop goes on when the first probe has settled.
ParJoin_NoBarrier ==
  /\ pc = "par_await"
  /\ \E k \in 1..Len(batch) : results[k] # "pending"
  /\ found' = Collect(found, batch, results, count)
  /\ i' = i + maxConcurrency
  /\ pc' = "par_loop"
  /\ UNCHANGED <<validators, free, api, argVars, seqVars, ports, batch,
                 results, outcome, probeLog, envChanges>>
  /\ UNCHANGED <<input, netVars, called, cli, evaluated>>

\* Promise.all resolves: the window's results are appended in window order
\* and the loop advances by maxConcurrency.
ParJoin ==
  /\ pc = "par_await"
  /\ \A k \in 1..Len(batch) : results[k] # "pending"
  /\ found' = Collect(found, batch, results, count)
  /\ i' = i + maxConcurrency
  /\ pc' = "par_loop"
  /\ UNCHANGED <<validators, free, api, argVars, seqVars, ports, batch,
                 results, outcome, probeLog, envChanges>>
  /\ UNCHANGED <<input, netVars, called, cli, evaluated>>

\* ------------------------------------------------------------------------
\* Return of the scanner to its caller
\* ------------------------------------------------------------------------

\* Variant of FindPortResult: the empty result is reported with the code
\* and details of findPorts.
FindPortResult_WrongCode(res) ==
  IF Len(res) = 0
  THEN Rejected("INSUFFICIENT_PORTS",
                [requested |-> 1, found |-> 0, ports |-> res])
  ELSE Resolved(<<res[1]>>)

\* The rest of findPort after the await.
FindPortResult(res) ==
  IF Len(res) = 0
  THEN Rejected("NO_AVAILABLE_PORT",
                [start |-> start, end |-> end, exclude |-> exclude,
                 validators |-> validator.names])
  ELSE Resolved(<<res[1]>>)

\* Variant of FindPortsResult: the result is tested for emptiness, as
\* findPort tests it.
FindPortsResult_EmptinessTest(res) ==
  IF Len(res) = 0
  THEN Rejected("INSUFFICIENT_PORTS",
                [requested |-> count, found |-> Len(res), ports |-> res])
  ELSE Resolved(res)

\* Variant of FindPortsResult: the details report the requested count as
\* the number found.
FindPortsResult_FoundIsRequested(res) ==
  IF Len(res) < count
  THEN Rejected("INSUFFICIENT_PORTS",
                [requested |-> count, found |-> count, ports |-> res])
  ELSE Resolved(res)

\* The rest of findPorts after the await.
FindPortsResult(res) ==
  IF Len(res) < count
  THEN Rejected("INSUFFICIENT_PORTS",
                [requested |-> count, found |-> Len(res), ports |-> res])
  ELSE Resolved(res)

\* Variant of ScanReturn: a scanner rejects when it found fewer than count.
ScanReturn_RejectsShort ==
  /\ pc = "return"
  /\ outcome' = CASE api = "findPort"  -> FindPortResult(found)
                  [] api = "findPorts" -> FindPortsResult(found)
                  [] Len(found) < count ->
                       Rejected("INSUFFICIENT_PORTS",
                                [requested |-> count, found |-> Len(found),
                                 ports |-> found])
                  [] OTHER             -> Resolved(found)
  /\ pc' = "done"
  /\ UNCHANGED <<validators, free, api, argVars, seqVars, parVars, found,
                 probeLog, envChanges>>
  /\ UNCHANGED <<input, netVars, called, cli, evaluated>>

\* return found, and the continuation of the awaiting wrapper.
ScanReturn ==
  /\ pc = "return"
  /\ outcome' = CASE api = "findPort"  -> FindPortResult(found)
                  [] api = "findPorts" -> FindPortsResult(found)
                  [] OTHER             -> Resolved(found)
  /\ pc' = "done"
  /\ UNCHANGED <<validators, free, api, argVars, seqVars, parVars, found,
                 probeLog, envChanges>>
  /\ UNCHANGED <<input, netVars, called, cli, evaluated>>

\* ------------------------------------------------------------------------
\* isPortAvailable and the exported checkPort
\* ------------------------------------------------------------------------

\* The boolean a single probe resolves to.
ResolvedBoolean(b) == [kind |-> "resolved", value |-> <<>>, available |-> b]

\* Variant of CallIsPortAvailable: the port is handed to checkPort unchecked.
CallIsPortAvailable_NoValidation(v) ==
  /\ pc = "idle"
  /\ api' = "isPortAvailable"
  /\ input' = [port |-> v]
  /\ port' = v.val
  /\ pc' = "check_await"
  /\ UNCHANGED <<validators, free, argVars, consecutiveStart,
                 consecutiveCount, parVars, found, outcome, probeLog,
                 envChanges, netVars>>
  /\ UNCHANGED <<called, evaluated>>

\* isPortAvailable(port, host): validatePort(port); return checkPort(port, host)
\* (The caller of CallIsPortAvailable says what becomes of cli.)
CallIsPortAvailable(v) ==
  /\ pc = "idle"
  /\ api' = "isPortAvailable"
  /\ input' = [port |-> v]
  /\ IF validatePortValue(v) # "ok"
     THEN /\ outcome' = Rejected("INVALID_PORT", [port |-> v])
          /\ pc' = "done"
          /\ UNCHANGED port
     ELSE /\ port' = v.val
          /\ pc' = "check_await"
          /\ UNCHANGED outcome
  /\ UNCHANGED <<validators, free, argVars, consecutiveStart,
                 consecutiveCount, parVars, found, probeLog, envChanges,
                 netVars>>
  /\ UNCHANGED <<called, evaluated>>

\* A caller invokes the exported checkPort: the bind is attempted on the
\* port as given.
CallCheckPort(p) ==
  /\ pc = "idle"
  /\ api' = "checkPort"
  /\ input' = [port |-> Whole(p)]
  /\ port' = p
  /\ pc' = "check_await"
  /\ UNCHANGED <<validators, free, argVars, consecutiveStart,
                 consecutiveCount, parVars, found, outcome, probeLog,
                 envChanges, netVars>>
  /\ UNCHANGED <<called, cli, evaluated>>

\* The probe of isPortAvailable / checkPort settles.
CheckPortSettle ==
  /\ pc = "check_await"
  /\ LET available == checkPort(port) IN
     /\ probeLog' = probeLog \cup {[port |-> port, available |-> available]}
     /\ outcome' = ResolvedBoolean(available)
  /\ pc' = "done"
  /\ UNCHANGED <<validators, free, api, argVars, seqVars, parVars, found,
                 envChanges, input, netVars>>
  /\ UNCHANGED <<called, cli, evaluated>>

\* ------------------------------------------------------------------------
\* Specification
\* ------------------------------------------------------------------------
\* Predicates handed to the exported scanners: none, or the predicate of one
\* named validator.
DirectValidators == {NoValidator} \cup {Closure(<<n>>) : n \in ListNames}

\* The calls a client can make while no call is in progress, over all the
\* inputs of the model.
Idle == pc = "idle"

ClientAddValidator ==
  Idle /\ \E n \in CustomNames, fn \in CustomFns : AddValidator(n, fn)

ClientRemoveValidator ==
  Idle /\ \E n \in CustomNames : RemoveValidator(n)

ClientScanPorts ==
  Idle /\ \E s \in Ports, e \in Ports, x \in SUBSET Ports,
             v \in DirectValidators, c \in 1..MaxCount, cons \in BOOLEAN :
             CallScanPorts(s, e, x, v, c, cons)

ClientScanPortsParallel ==
  Idle /\ \E s \in Ports, e \in Ports, x \in SUBSET Ports,
             v \in DirectValidators, c \in 1..MaxCount, mc \in 1..MaxConc :
             CallScanPortsParallel(s, e, x, v, c, mc)

ClientFindPort ==
  Idle /\ \E s \in InputPorts, e \in InputPorts, x \in SUBSET Ports,
             names \in NameLists :
             CallFindPort(Whole(s), Whole(e), x, names) /\ UNCHANGED cli

ClientFindPorts ==
  Idle /\ \E c \in 0..MaxCount, s \in InputPorts, e \in InputPorts,
             x \in SUBSET Ports, names \in NameLists, cons \in BOOLEAN :
             CallFindPorts(Whole(c), Whole(s), Whole(e), x, names, cons)
             /\ UNCHANGED cli

Environment == \E p \in Ports : EnvChange(p)

ParSettle == \E k \in 1..NumPorts : ParProbeSettle(k)

Next ==
  \/ ClientAddValidator
  \/ ClientRemoveValidator
  \/ ClientScanPorts
  \/ ClientScanPortsParallel
  \/ ClientFindPort
  \/ ClientFindPorts
  \/ Environment
  \/ SeqExit
  \/ SeqSkipExcluded
  \/ SeqSkipRejected
  \/ SeqValidatorThrows
  \/ SeqIssueProbe
  \/ SeqProbeSettle
  \/ ParFilter
  \/ ParExit
  \/ ParIssueWindow
  \/ ParSettle
  \/ ParJoin
  \/ ScanReturn

Spec == Init /\ [][Next]_vars

\* The two scanners called directly, with the registry operations and the
\* environment.
NextScan ==
  \/ ClientAddValidator
  \/ ClientRemoveValidator
  \/ ClientScanPorts
  \/ ClientScanPortsParallel
  \/ Environment
  \/ SeqExit
  \/ SeqSkipExcluded
  \/ SeqSkipRejected
  \/ SeqValidatorThrows
  \/ SeqIssueProbe
  \/ SeqProbeSettle
  \/ ParFilter
  \/ ParExit
  \/ ParIssueWindow
  \/ ParSettle
  \/ ParJoin
  \/ ScanReturn

SpecScan == Init /\ [][NextScan]_vars

\* The two scanners under fair scheduling, for termination: the event loop
\* runs a continuation that is ready, and every probe settles.
\* scanPortsParallel takes any maxConcurrency from 0 on (nothing in the
\* code tests it).
LiveScanPorts ==
  Idle /\ \E s \in Ports, e \in Ports, x \in SUBSET Ports,
             v \in DirectValidators, c \in 1..MaxCount, cons \in BOOLEAN :
             CallScanPorts(s, e, x, v, c, cons)

LiveScanPortsParallel ==
  Idle /\ \E s \in Ports, e \in Ports, x \in SUBSET Ports,
             v \in DirectValidators, c \in 1..MaxCount, mc \in 0..MaxConc :
             CallScanPortsParallel(s, e, x, v, c, mc)

\* A step of a scan that is under way.
ScanStep ==
  \/ SeqExit
  \/ SeqSkipExcluded
  \/ SeqSkipRejected
  \/ SeqValidatorThrows
  \/ SeqIssueProbe
  \/ SeqProbeSettle
  \/ ParFilter
  \/ ParExit
  \/ ParIssueWindow
  \/ ParSettle
  \/ ParJoin
  \/ ScanReturn

NextLive ==
  \/ LiveScanPorts
  \/ LiveScanPortsParallel
  \/ SeqExit
  \/ SeqSkipExcluded
  \/ SeqSkipRejected
  \/ SeqValidatorThrows
  \/ SeqIssueProbe
  \/ SeqProbeSettle
  \/ ParFilter
  \/ ParExit
  \/ ParIssueWindow
  \/ ParSettle
  \/ ParJoin
  \/ ScanReturn

SpecLive == Init /\ [][NextLive]_vars /\ WF_vars(ScanStep)

\* ------------------------------------------------------------------------
\* Specification of the calls with arbitrary numbers as arguments: every
\* exported function that takes a port, a range or a count is called with
\* valid values, with the nearest values outside [MIN_PORT, MAX_PORT], with
\* a reversed range and with non-integral values; no Exclusion Set and no
\* validators.  Port 0 asks the system for any port it has left.
\* ------------------------------------------------------------------------
AnyPort == MIN_PORT - 1

InputValues == {Whole(p) : p \in InputPorts} \cup {Half(PortLo)}
CountValues == {Whole(c) : c \in (0 - 1)..MaxCount} \cup {Half(1)}

\* Ranges handed to the exported scanners: those of the universe, and the
\* one-port ranges next to it that validatePort would reject.
DirectRanges ==
  (Ports \X Ports) \cup {<<p, p>> : p \in InputPorts \ Ports}

InitInput == free \in SUBSET (Ports \cup {AnyPort}) /\ InitState

InputIsPortAvailable ==
  Idle /\ \E v \in InputValues : CallIsPortAvailable(v) /\ UNCHANGED cli

InputCheckPort ==
  Idle /\ \E p \in InputPorts : CallCheckPort(p)

InputFindPort ==
  Idle /\ \E s \in InputValues, e \in InputValues :
             CallFindPort(s, e, {}, <<>>) /\ UNCHANGED cli

InputFindPorts ==
  Idle /\ \E c \in CountValues, s \in InputValues, e \in InputValues,
             cons \in BOOLEAN :
             CallFindPorts(c, s, e, {}, <<>>, cons) /\ UNCHANGED cli

InputScanPorts ==
  Idle /\ \E r \in DirectRanges, c \in 1..MaxCount, cons \in BOOLEAN :
             CallScanPorts(r[1], r[2], {}, NoValidator, c, cons)

InputScanPortsParallel ==
  Idle /\ \E r \in DirectRanges, c \in 1..MaxCount, mc \in 1..MaxConc :
             CallScanPortsParallel(r[1], r[2], {}, NoValidator, c, mc)

NextInput ==
  \/ InputIsPortAvailable
  \/ InputCheckPort
  \/ InputFindPort
  \/ InputFindPorts
  \/ InputScanPorts
  \/ InputScanPortsParallel
  \/ CheckPortSettle
  \/ SeqExit
  \/ SeqIssueProbe
  \/ SeqProbeSettle
  \/ ParFilter
  \/ ParExit
  \/ ParIssueWindow
  \/ ParSettle
  \/ ParJoin
  \/ ScanReturn

SpecInput == InitInput /\ [][NextInput]_vars

\* ------------------------------------------------------------------------
\* checkPort at the level of the server socket.  Several callers (the
\* probes of a window, or independent scans) run checkPort concurrently;
\* one call goes through: createServer and listen (stage "listen"), the
\* bind attempt of the system and the event it queues (stage "event"), the
\* handler of that event with cleanup and resolve (stage "returned").
\* server.close() only starts the release of a listening socket: the
\* socket is gone at once or stays "closing" until its 'close' event.
\* ------------------------------------------------------------------------

\* Ports probed at this level: two ports of the universe and one that
\* listen refuses synchronously.
ProbePorts == {PortLo, PortLo + 1, MAX_PORT + 1}

\* server.listen(port, host) throws instead of queueing an event.
ListenThrows(p) == p < 0 \/ p > MAX_PORT

\* Error codes of the 'error' event.
ErrorEvents == {"EADDRINUSE", "EACCES", "EOTHER"}

\* A socket of some probe is held on port p (listening or closing).
Held(p) == \E s \in sockets : s.port = p

\* server.once('listening'): cleanup(); resolve(true)
OnListening == "true"

\* Variant of OnError: codes other than EADDRINUSE and EACCES reject the
\* promise.
OnError_RejectsOtherCodes(code) ==
  IF code \in {"EADDRINUSE", "EACCES"} THEN "false" ELSE "rejected"

\* Variant of OnError: the two booleans are swapped for EADDRINUSE.
OnError_InUseIsAvailable(code) ==
  IF code = "EADDRINUSE" THEN "true" ELSE "false"

\* server.once('error'): cleanup(); resolve(false) in both branches
OnError(code) ==
  IF code \in {"EADDRINUSE", "EACCES"} THEN "false" ELSE "false"

\* catch (err): cleanup(); resolve(false)
OnException == "false"

\* checkPort(port, host) up to the return of the promise: createServer,
\* the two once-handlers, and listen inside try/catch.
CheckPortCall(c, p) ==
  /\ cp[c].stage \in {"idle", "returned"}
  /\ LET again == /\ cp[c].stage = "returned"
                  /\ cp[c].port = p
                  /\ cp[c].result = "true"
     IN cp' = [cp EXCEPT ![c] =
                 IF ListenThrows(p)
                 THEN [stage |-> "returned", port |-> p, event |-> "exception",
                       result |-> OnException, resolves |-> 1,
                       blockedBy |-> "none", repeat |-> again]
                 ELSE [stage |-> "listen", port |-> p, event |-> "none",
                       result |-> "pending", resolves |-> 0,
                       blockedBy |-> "none", repeat |-> again]]
  /\ UNCHANGED <<validators, free, api, pc, argVars, seqVars, parVars, found,
                 outcome, probeLog, envChanges, input, sockets>>
  /\ UNCHANGED <<called, cli, evaluated>>

\* The system attempts the bind and queues 'listening' or 'error'.
Bind(c) ==
  /\ cp[c].stage = "listen"
  /\ LET p == cp[c].port IN
     IF p \in free /\ ~Held(p)
     THEN /\ sockets' = sockets \cup {[owner |-> c, port |-> p, state |-> "bound"]}
          /\ cp' = [cp EXCEPT ![c].stage = "event", ![c].event = "listening"]
     ELSE /\ UNCHANGED sockets
          /\ \E code \in ErrorEvents :
               /\ (p \in free) => code = "EADDRINUSE"
               /\ cp' = [cp EXCEPT
                           ![c].stage = "event",
                           ![c].event = code,
                           ![c].blockedBy =
                              IF p \notin free THEN "env"
                              ELSE IF \E s \in sockets : s.port = p /\ s.owner = c
                                   THEN "self" ELSE "other"]
  /\ UNCHANGED <<validators, free, api, pc, argVars, seqVars, parVars, found,
                 outcome, probeLog, envChanges, input>>
  /\ UNCHANGED <<called, cli, evaluated>>

\* The queued event is delivered: cleanup() removes the listeners and calls
\* server.close(), then the promise is resolved.
Handler(c) ==
  /\ cp[c].stage = "event"
  /\ cp' = [cp EXCEPT
              ![c].stage = "returned",
              ![c].result = IF cp[c].event = "listening" THEN OnListening
                            ELSE OnError(cp[c].event),
              ![c].resolves = cp[c].resolves + 1]
  /\ LET mine == {s \in sockets : s.owner = c /\ s.state = "bound"} IN
     \/ sockets' = sockets \ mine
     \/ /\ mine # {}
        /\ sockets' = (sockets \ mine) \cup
                        {[s EXCEPT !.state = "closing"] : s \in mine}
  /\ UNCHANGED <<validators, free, api, pc, argVars, seqVars, parVars, found,
                 outcome, probeLog, envChanges, input>>
  /\ UNCHANGED <<called, cli, evaluated>>

\* The release of a closing socket completes ('close' event, no listener).
CloseComplete(s) ==
  /\ s \in sockets
  /\ s.state = "closing"
  /\ sockets' = sockets \ {s}
  /\ UNCHANGED <<validators, free, api, pc, argVars, seqVars, parVars, found,
                 outcome, probeLog, envChanges, input, cp>>
  /\ UNCHANGED <<called, cli, evaluated>>

InitProbe == free \in SUBSET (ProbePorts \cap Ports) /\ InitState

ProbeCall == \E c \in Callers, p \in ProbePorts : CheckPortCall(c, p)
ProbeBind == \E c \in Callers : Bind(c)
ProbeHandler == \E c \in Callers : Handler(c)
SocketClosed == \E s \in sockets : CloseComplete(s)

NextProbe ==
  \/ ProbeCall
  \/ ProbeBind
  \/ ProbeHandler
  \/ SocketClosed

SpecProbe == InitProbe /\ [][NextProbe]_vars

\* ------------------------------------------------------------------------
\* The validator registry called directly: addValidator, removeValidator,
\* getValidator and applyValidators are synchronous, so each call is one
\* step.  api, input, outcome and called describe the last call.
\* ------------------------------------------------------------------------

MaxListLen == 2

\* Names handed to the registry: the built-in names, the custom names, a
\* name Object.prototype defines, and the empty string.
RegistryNames == BuiltInNames \cup CustomNames \cup ObjectPrototypeNames \cup {""}

\* What a caller passes as validate: a function, or a string.
RegistryValues == CustomFns \cup {"not a function"}

\* Ports handed to applyValidators: the universe and a common port that is
\* even and not privileged.
CommonPort == 1080
RegistryPorts == Ports \cup {CommonPort}

RegistryLists == UNION {[1..n -> RegistryNames] : n \in 0..MaxListLen}

Returned(value) == [kind |-> "returned", value |-> value]
Thrown(message) == [kind |-> "thrown", name |-> "Error", message |-> message]

\* addValidator(name, validate)
CallAddValidator(name, validate) ==
  /\ pc = "idle"
  /\ api' = "addValidator"
  /\ input' = [name |-> name, validate |-> validate]
  /\ IF name = ""
     THEN /\ outcome' = Thrown("Validator name must be a non-empty string")
          /\ UNCHANGED validators
     ELSE IF validate \notin CustomFns
     THEN /\ outcome' = Thrown("Validator must be a function")
          /\ UNCHANGED validators
     ELSE /\ validators' = [validators EXCEPT ![name] = validate]
          /\ outcome' = Returned("undefined")
  /\ called' = <<>>
  /\ UNCHANGED <<free, pc, argVars, seqVars, parVars, found, probeLog,
                 envChanges, netVars, cli, evaluated>>

\* Variant of CallRemoveValidator: the whole registry is emptied.
CallRemoveValidator_ClearsAll(name) ==
  /\ pc = "idle"
  /\ api' = "removeValidator"
  /\ input' = [name |-> name]
  /\ IF name = ""
     THEN /\ outcome' = Thrown("Validator name must be a non-empty string")
          /\ UNCHANGED validators
     ELSE /\ validators' = [n \in DOMAIN validators |-> "undefined"]
          /\ outcome' = Returned("undefined")
  /\ called' = <<>>
  /\ UNCHANGED <<free, pc, argVars, seqVars, parVars, found, probeLog,
                 envChanges, netVars, cli, evaluated>>

\* removeValidator(name)
CallRemoveValidator(name) ==
  /\ pc = "idle"
  /\ api' = "removeValidator"
  /\ input' = [name |-> name]
  /\ IF name = ""
     THEN /\ outcome' = Thrown("Validator name must be a non-empty string")
          /\ UNCHANGED validators
     ELSE /\ validators' = [validators EXCEPT ![name] = "undefined"]
          /\ outcome' = Returned("undefined")
  /\ called' = <<>>
  /\ UNCHANGED <<free, pc, argVars, seqVars, parVars, found, probeLog,
                 envChanges, netVars, cli, evaluated>>

\* getValidator(name)
CallGetValidator(name) ==
  /\ pc = "idle"
  /\ api' = "getValidator"
  /\ input' = [name |-> name]
  /\ outcome' = Returned(getValidator(name))
  /\ called' = <<>>
  /\ UNCHANGED <<validators, free, pc, argVars, seqVars, parVars, found,
                 probeLog, envChanges, netVars, cli, evaluated>>

\* applyValidators(port, validatorNames)
CallApplyValidators(p, validatorNames) ==
  /\ pc = "idle"
  /\ api' = "applyValidators"
  /\ input' = [port |-> p, validatorNames |-> validatorNames]
  /\ LET r == applyValidators(p, validatorNames) IN
     outcome' = IF r = "throw" THEN Thrown("Unknown validator")
                ELSE Returned(r = "true")
  /\ called' = applyValidatorsCalls(p, validatorNames)
  /\ UNCHANGED <<validators, free, pc, argVars, seqVars, parVars, found,
                 probeLog, envChanges, netVars, cli, evaluated>>

InitRegistry ==
  /\ free = {}
  /\ validators = [n \in RegistryNames |-> "undefined"]
  /\ api = "idle"
  /\ pc = "idle"
  /\ start = 0 /\ end = 0 /\ exclude = {} /\ validator = NoValidator
  /\ count = 0 /\ consecutive = FALSE /\ maxConcurrency = 0
  /\ port = 0 /\ found = <<>>
  /\ consecutiveStart = -1 /\ consecutiveCount = 0
  /\ ports = <<>> /\ i = 0 /\ batch = <<>> /\ results = <<>>
  /\ outcome = Pending
  /\ probeLog = {}
  /\ envChanges = 0
  /\ input = <<>>
  /\ cp = [c \in Callers |-> NoCall]
  /\ sockets = {}
  /\ called = <<>>
  /\ cli = NoCli
  /\ evaluated = <<>>

RegistryAdd ==
  \E name \in RegistryNames, validate \in RegistryValues :
    CallAddValidator(name, validate)
RegistryRemove == \E name \in RegistryNames : CallRemoveValidator(name)
RegistryGet == \E name \in RegistryNames : CallGetValidator(name)
RegistryApply ==
  \E p \in RegistryPorts, names \in RegistryLists : CallApplyValidators(p, names)

NextRegistry ==
  \/ RegistryAdd
  \/ RegistryRemove
  \/ RegistryGet
  \/ RegistryApply

SpecRegistry == InitRegistry /\ [][NextRegistry]_vars

\* ------------------------------------------------------------------------
\* The command line (cli module): main parses process.argv, calls findPort
\* or findPorts, prints the result and exits; with --check it calls
\* isPortAvailable instead.  The arguments of the model are --start, --end,
\* --count, --consecutive and --check; without --check, --start and --end
\* are always given.
\* ------------------------------------------------------------------------

DEFAULT_START_PORT == 3000
DEFAULT_END_PORT == 65535

\* The characters of the argument texts of the model.
Characters(s) ==
  CASE s = "0"    -> <<"0">>
    [] s = "1"    -> <<"1">>
    [] s = "2"    -> <<"2">>
    [] s = "-1"   -> <<"-", "1">>
    [] s = "1.5"  -> <<"1", ".", "5">>
    [] s = "2x"   -> <<"2", "x">>
    [] s = "abc"  -> <<"a", "b", "c">>
    [] s = "1022" -> <<"1", "0", "2", "2">>
    [] s = "1023" -> <<"1", "0", "2", "3">>
    [] s = "1023x" -> <<"1", "0", "2", "3", "x">>
    [] s = "65536" -> <<"6", "5", "5", "3", "6">>

DigitValue(c) ==
  CASE c = "0" -> 0 [] c = "1" -> 1 [] c = "2" -> 2 [] c = "3" -> 3
    [] c = "4" -> 4 [] c = "5" -> 5 [] c = "6" -> 6 [] c = "7" -> 7
    [] c = "8" -> 8 [] c = "9" -> 9

IsDigit(c) == c \in {"0", "1", "2", "3", "4", "5", "6", "7", "8", "9"}

\* The values of an option besides the integers and halves.
NaN == [integer |-> FALSE, val |-> 0, nan |-> TRUE]
Undefined == [integer |-> FALSE, val |-> 0, undefined |-> TRUE]

\* The longest prefix of digits of a text, and its value in base 10.
RECURSIVE DigitsPrefix(_)
DigitsPrefix(t) ==
  IF t = <<>> \/ ~IsDigit(Head(t)) THEN <<>>
  ELSE <<Head(t)>> \o DigitsPrefix(Tail(t))

RECURSIVE Decimal(_)
Decimal(d) ==
  IF d = <<>> THEN 0
  ELSE 10 * Decimal(SubSeq(d, 1, Len(d) - 1)) + DigitValue(d[Len(d)])

\* parseInt(string, 10): an optional sign, then the digits up to the first
\* character that is not one; NaN when there is no digit.
parseInt(string) ==
  LET t == Characters(string)
      signed == t # <<>> /\ Head(t) \in {"-", "+"}
      digits == DigitsPrefix(IF signed THEN Tail(t) ELSE t)
  IN IF digits = <<>> THEN NaN
     ELSE IF signed /\ Head(t) = "-" THEN Whole(0 - Decimal(digits))
     ELSE Whole(Decimal(digits))

\* const options = {}: consecutive is read as a boolean, absent is false.
NoOptions ==
  [start |-> Undefined, end |-> Undefined, count |-> Undefined,
   consecutive |-> FALSE, check |-> Undefined]

\* parseInt(next, 10) for the argument after args[k]; parseInt(undefined)
\* is NaN.
ParseNext(args, k) ==
  IF k + 1 <= Len(args) THEN parseInt(args[k + 1]) ELSE NaN

\* The loop of parseArgs(args) from index k (1-based) on.
RECURSIVE parseArgsFrom(_, _, _)
parseArgsFrom(args, k, options) ==
  IF k > Len(args) THEN options
  ELSE CASE args[k] \in {"-s", "--start"} ->
              parseArgsFrom(args, k + 2,
                            [options EXCEPT !.start = ParseNext(args, k)])
         [] args[k] \in {"-e", "--end"} ->
              parseArgsFrom(args, k + 2,
                            [options EXCEPT !.end = ParseNext(args, k)])
         [] args[k] \in {"-c", "--count"} ->
              parseArgsFrom(args, k + 2,
                            [options EXCEPT !.count = ParseNext(args, k)])
         [] args[k] = "--consecutive" ->
              parseArgsFrom(args, k + 1, [options EXCEPT !.consecutive = TRUE])
         [] args[k] = "--check" ->
              parseArgsFrom(args, k + 2,
                            [options EXCEPT !.check = ParseNext(args, k)])
         [] OTHER -> parseArgsFrom(args, k + 1, options)

parseArgs(args) == parseArgsFrom(args, 1, NoOptions)

\* Truthiness of a number or undefined: NaN, 0 and undefined are falsy.
Truthy(v) == v # NaN /\ v # Undefined /\ v # Whole(0)

\* A destructuring default: it applies to undefined only.
Default(v, d) == IF v = Undefined THEN Whole(d) ELSE v

\* const count = options.count || 1
CliCount(options) == IF Truthy(options.count) THEN options.count ELSE Whole(1)

\* main() until the await of isPortAvailable, findPort or findPorts.
CliMain(argv) ==
  /\ cli.stage = "none"
  /\ LET options == parseArgs(argv)
         n == CliCount(options)
         s == Default(options.start, DEFAULT_START_PORT)
         e == Default(options.end, DEFAULT_END_PORT)
     IN /\ cli' = [stage |-> "running", argv |-> argv, options |-> options,
                   stdout |-> <<>>, stderr |-> <<>>, exitCode |-> 0 - 1]
        /\ IF options.check # Undefined
           THEN CallIsPortAvailable(options.check)
           ELSE IF n = Whole(1)
           THEN CallFindPort(s, e, {}, <<>>)
           ELSE CallFindPorts(n, s, e, {}, <<>>, options.consecutive)

\* `Port ${options.check} is ${available ? 'available' : 'in use'}`
CheckLine(p, available) ==
  [prefix |-> "Port ", port |-> p,
   is |-> IF available THEN "available" ELSE "in use"]

\* Variant of CliExit: a check that resolved exits with code 0.
CliExit_CheckExitsZero ==
  /\ cli.stage = "running"
  /\ pc = "done"
  /\ cli' = IF outcome.kind = "resolved" /\ cli.options.check # Undefined
            THEN [cli EXCEPT !.stage = "exited",
                             !.stdout = <<CheckLine(cli.options.check.val,
                                                    outcome.available)>>,
                             !.exitCode = 0]
            ELSE IF outcome.kind = "resolved"
            THEN [cli EXCEPT !.stage = "exited", !.stdout = <<outcome.value>>,
                             !.exitCode = 0]
            ELSE [cli EXCEPT !.stage = "exited",
                             !.stderr = <<[prefix |-> "Error: ",
                                           error |-> outcome.code]>>,
                             !.exitCode = 1]
  /\ UNCHANGED <<validators, free, api, pc, argVars, seqVars, parVars, found,
                 outcome, probeLog, envChanges, input, netVars, called,
                 evaluated>>

\* The rest of main() after the await: in check mode console.log of the line
\* and process.exit(available ? 0 : 1); otherwise console.log of the port or
\* ports and process.exit(0); on an error console.error of it and
\* process.exit(1).
CliExit ==
  /\ cli.stage = "running"
  /\ pc = "done"
  /\ cli' = IF outcome.kind = "resolved" /\ cli.options.check # Undefined
            THEN [cli EXCEPT !.stage = "exited",
                             !.stdout = <<CheckLine(cli.options.check.val,
                                                    outcome.available)>>,
                             !.exitCode = IF outcome.available THEN 0 ELSE 1]
            ELSE IF outcome.kind = "resolved"
            THEN [cli EXCEPT !.stage = "exited", !.stdout = <<outcome.value>>,
                             !.exitCode = 0]
            ELSE [cli EXCEPT !.stage = "exited",
                             !.stderr = <<[prefix |-> "Error: ",
                                           error |-> outcome.code]>>,
                             !.exitCode = 1]
  /\ UNCHANGED <<validators, free, api, pc, argVars, seqVars, parVars, found,
                 outcome, probeLog, envChanges, input, netVars, called,
                 evaluated>>

PortTexts == {"1022", "1023"}
CountTexts == {"0", "1", "2", "-1", "1.5", "2x", "abc"}

CheckTexts == {"1022", "1023", "1023x", "0", "65536", "abc"}

\* Command lines with --check: alone, with its value, and with the options
\* of a scan after or before it.
CheckArgvs ==
  {<<"--check">>}
    \cup {<<"--check", t>> \o r :
            t \in CheckTexts,
            r \in {<<>>, <<"--count", "2">>,
                   <<"--start", "1022", "--end", "1023">>}}
    \cup {<<"--count", "2", "--consecutive", "--check", t>> :
            t \in CheckTexts}

CliArgvs ==
  {<<"--start", s, "--end", e>> \o c \o k :
     s \in PortTexts, e \in PortTexts,
     c \in {<<>>} \cup {<<"--count", t>> : t \in CountTexts},
     k \in {<<>>, <<"--consecutive">>}}
    \cup CheckArgvs

InitCli == free \in SUBSET Ports /\ InitState

CliStart == \E argv \in CliArgvs : CliMain(argv)

NextCli ==
  \/ CliStart
  \/ ParFilter
  \/ ParExit
  \/ ParIssueWindow
  \/ ParSettle
  \/ ParJoin
  \/ SeqExit
  \/ SeqIssueProbe
  \/ SeqProbeSettle
  \/ ScanReturn
  \/ CheckPortSettle
  \/ CliExit

SpecCli == InitCli /\ [][NextCli]_vars


\* ------------------------------------------------------------------------
\* Vocabulary of the properties
\* ------------------------------------------------------------------------

\* The sequential scanner runs for scanPorts and for findPorts in
\* consecutive mode; the parallel scanner otherwise.
Sequential == api = "scanPorts" \/ (api = "findPorts" /\ consecutive)
DirectScan == api \in {"scanPorts", "scanPortsParallel"}

\* The port passes the Exclusion Set and the predicate of the call.
Eligible(p) == p \notin exclude /\ CallValidator(validator, p) = "true"

\* Every name of the validator list resolves in the registry.
NamesResolve ==
  \A k \in DOMAIN validator.names : getValidator(validator.names[k]) # "undefined"

\* Port availability did not change during the call.
Stable == envChanges = 0

\* The eligible free ports of the range, and a set of ports in ascending order.
EligibleFree == {p \in start..end : Eligible(p) /\ p \in free}
Ascending(S) ==
  [k \in 1..Cardinality(S) |->
     CHOOSE p \in S : Cardinality({q \in S : q < p}) = k - 1]

\* A probe of p settled during this call and reported it available.
ProbedFree(p) == [port |-> p, available |-> TRUE] \in probeLog
ProbedBusy(p) == [port |-> p, available |-> FALSE] \in probeLog

\* b starts a block of count adjacent ports of the range that are all
\* eligible and free.
FreeBlock(b) ==
  /\ b >= start /\ b + count - 1 <= end
  /\ \A p \in b..(b + count - 1) : Eligible(p) /\ p \in free

\* The value a call resolved to, as a sequence (<<>> while it has not).
Value == IF outcome.kind = "resolved" THEN outcome.value ELSE <<>>

\* ------------------------------------------------------------------------
\* C1: no port of the result is in the Exclusion Set, for both scanners in
\* every mode and for the values findPort and findPorts resolve to.
\* ------------------------------------------------------------------------
C1_ResultAvoidsExclusions ==
  /\ \A k \in DOMAIN found : found[k] \notin exclude
  /\ \A k \in DOMAIN Value : Value[k] \notin exclude

\* A scan returned a port although a lower free port of the range was excluded.
C1_Witness ==
  /\ pc = "done" /\ Len(Value) >= 1
  /\ \E p \in exclude : p \in free /\ p >= start /\ p < Value[1]

\* ------------------------------------------------------------------------
\* C2: every port of the result is accepted by the predicate of the call.
\* ------------------------------------------------------------------------
C2_ResultPassesPredicate ==
  /\ \A k \in DOMAIN found : CallValidator(validator, found[k]) = "true"
  /\ \A k \in DOMAIN Value : CallValidator(validator, Value[k]) = "true"

\* C2, as stated: with the validator list ["privileged"] every port that
\* findPort / findPorts return is >= 1024.
C2_PrivilegedAsStated ==
  (api \in {"findPort", "findPorts"} /\ validator.names = <<"privileged">>)
    => \A k \in DOMAIN Value : Value[k] >= PRIVILEGED_LIMIT

\* C2, amended: every port of a result is accepted by the predicate, and
\* with the list ["privileged"] the ports findPort / findPorts return are
\* >= 1024 while no custom predicate is registered under that name.
C2_Amended ==
  /\ C2_ResultPassesPredicate
  /\ (/\ api \in {"findPort", "findPorts"}
      /\ validator.names = <<"privileged">>
      /\ validators["privileged"] = "undefined")
       => \A k \in DOMAIN Value : Value[k] >= PRIVILEGED_LIMIT

\* findPort / findPorts with ["privileged"] skipped a free privileged port.
C2_Witness ==
  /\ api \in {"findPort", "findPorts"} /\ pc = "done"
  /\ validator.names = <<"privileged">>
  /\ validators["privileged"] = "undefined"
  /\ Len(Value) >= 1
  /\ \E p \in free : p >= start /\ p < PRIVILEGED_LIMIT /\ p \notin exclude

\* ------------------------------------------------------------------------
\* C3: every port of a scanner's result lies in [start, end] and was
\* reported available by a probe of this call, block members included.
\* ------------------------------------------------------------------------
C3_ResultInRangeAndProbed ==
  \A k \in DOMAIN found :
     /\ found[k] >= start /\ found[k] <= end
     /\ ProbedFree(found[k])

\* A block of at least two ports was emitted after an unavailable port.
C3_Witness ==
  /\ consecutive /\ pc = "return" /\ Len(found) >= 2
  /\ \E p \in start..end : ProbedBusy(p) /\ p < found[1]

\* ------------------------------------------------------------------------
\* C4: the accumulated result never holds more than count ports.
\* ------------------------------------------------------------------------
C4_AtMostCount ==
  (count >= 1) => (Len(found) <= count /\ Len(Value) <= count)

\* The last window held more available ports than were still needed.
C4_Witness ==
  /\ ~Sequential /\ pc = "par_loop" /\ Len(found) = count
  /\ Cardinality({k \in DOMAIN results : results[k] = "true"}) > count

\* ------------------------------------------------------------------------
\* C5: in consecutive mode a result of count ports is ascending and
\* adjacent, also as the value of findPorts(count, {consecutive: true}).
\* ------------------------------------------------------------------------
Adjacent(r) == \A k \in 1..(Len(r) - 1) : r[k + 1] = r[k] + 1

C5_ConsecutiveBlock ==
  consecutive =>
    /\ Len(found) = count => Adjacent(found)
    /\ (api = "findPorts" /\ outcome.kind = "resolved") => Adjacent(Value)

\* findPorts resolved to a block of at least two ports.
C5_Witness ==
  /\ api = "findPorts" /\ consecutive /\ pc = "done"
  /\ count >= 2 /\ Len(Value) = count


\* ------------------------------------------------------------------------
\* C6: with availability fixed, consecutive mode returns the lowest block
\* of count adjacent eligible free ports of the range when one exists, and
\* the empty result otherwise.
\* ------------------------------------------------------------------------
C6_LowestBlock ==
  (pc = "return" /\ consecutive /\ Stable) =>
    IF \E b \in start..end : FreeBlock(b)
    THEN LET b == CHOOSE c \in start..end :
                    FreeBlock(c) /\ \A d \in start..end : FreeBlock(d) => c <= d
         IN /\ Len(found) = count
            /\ \A k \in 1..count : found[k] = b + k - 1
    ELSE found = <<>>

\* The block does not start the range: the first port was occupied.
C6_Witness ==
  /\ pc = "return" /\ consecutive /\ Stable
  /\ count >= 2 /\ Len(found) = count
  /\ found[1] > start /\ Eligible(start) /\ start \notin free

\* ------------------------------------------------------------------------
\* C7, as stated: with a free port in the range and no predicate each
\* scanner returns at least one port, all of them in [start, end].
\* ------------------------------------------------------------------------
InRange(r) == \A k \in DOMAIN r : r[k] >= start /\ r[k] <= end

C7_AsStated ==
  (/\ pc = "return" /\ ~validator.defined /\ Stable
   /\ \E p \in start..end : p \in free)
    => (Len(found) >= 1 /\ InRange(found))

\* C7, amended: the free port must be outside the Exclusion Set, and in
\* consecutive mode a block of count adjacent such ports must exist.
C7_Amended ==
  (pc = "return" /\ ~validator.defined /\ Stable) =>
    /\ InRange(found)
    /\ (~consecutive /\ \E p \in start..end : p \in free /\ p \notin exclude)
         => Len(found) >= 1
    /\ (consecutive /\ \E b \in start..end : FreeBlock(b))
         => Len(found) >= 1

\* A scan without predicate returned a port after skipping an excluded
\* free one.
C7_Witness ==
  /\ pc = "return" /\ ~validator.defined /\ Stable /\ ~consecutive
  /\ Len(found) >= 1
  /\ \E p \in start..end : p \in free /\ p \in exclude

\* ------------------------------------------------------------------------
\* C8: a range without eligible ports yields the empty result and no
\* error; a scanner never rejects because too few ports were found.
\* ------------------------------------------------------------------------
NoEligiblePort ==
  \A p \in start..end : p \in exclude \/ CallValidator(validator, p) = "false"

C8_ExhaustionIsNoError ==
  /\ (pc \in {"return", "done"} /\ NoEligiblePort) => found = <<>>
  /\ (pc = "done" /\ DirectScan) =>
       /\ NoEligiblePort => outcome = Resolved(<<>>)
       /\ outcome.kind = "rejected" =>
            /\ outcome = UnknownValidator
            /\ \E p \in start..end :
                 p \notin exclude /\ CallValidator(validator, p) = "throw"

\* A scanner ended on a non-empty range of free ports in which every port
\* is excluded or rejected, at least one by the predicate.
C8_Witness ==
  /\ pc = "done" /\ DirectScan /\ NoEligiblePort
  /\ start < end /\ \A p \in start..end : p \in free
  /\ \E p \in start..end : p \notin exclude
  /\ \E p \in start..end : p \in exclude
  /\ outcome = Resolved(<<>>)

\* ------------------------------------------------------------------------
\* C9, as stated: with only m < count eligible free ports the scanner
\* returns exactly those m ports and findPorts rejects with
\* INSUFFICIENT_PORTS, details requested = count, found = m, ports = the m
\* ports (read with availability fixed and every validator name resolving).
\* ------------------------------------------------------------------------
Insufficient(m, r) ==
  Rejected("INSUFFICIENT_PORTS", [requested |-> count, found |-> m, ports |-> r])

ShortScan(r) ==
  /\ pc = "return" => found = r
  /\ (pc = "done" /\ DirectScan) => outcome = Resolved(r)
  /\ (pc = "done" /\ api = "findPorts") => outcome = Insufficient(Len(r), r)

C9_AsStated ==
  (/\ pc \in {"return", "done"} /\ api # "findPort"
   /\ count >= 1 /\ validatePortRange(start, end) = "ok"
   /\ Stable /\ NamesResolve /\ Cardinality(EligibleFree) < count)
    => ShortScan(Ascending(EligibleFree))

\* C9, amended: in non-consecutive mode.
C9_Amended ==
  (/\ pc \in {"return", "done"} /\ api # "findPort"
   /\ count >= 1 /\ validatePortRange(start, end) = "ok"
   /\ Stable /\ Cardinality(EligibleFree) < count
   /\ ~consecutive /\ NamesResolve)
    => ShortScan(Ascending(EligibleFree))

\* findPorts rejected after the scan found one port of the two requested.
C9_Witness ==
  /\ pc = "done" /\ api = "findPorts" /\ ~consecutive /\ Stable
  /\ count = 2 /\ Cardinality(EligibleFree) = 1
  /\ outcome.kind = "rejected" /\ outcome.code = "INSUFFICIENT_PORTS"
  /\ outcome.details.found = 1

\* ------------------------------------------------------------------------
\* C10, as stated: findPort on a valid range rejects with
\* NO_AVAILABLE_PORT (details start, end, exclude, validators) exactly when
\* the range has no eligible free port, and otherwise resolves to one.
\* ------------------------------------------------------------------------
NoAvailablePort ==
  Rejected("NO_AVAILABLE_PORT",
           [start |-> start, end |-> end, exclude |-> exclude,
            validators |-> validator.names])

FindPortDichotomy ==
  IF EligibleFree = {}
  THEN outcome = NoAvailablePort
  ELSE /\ outcome.kind = "resolved"
       /\ Len(outcome.value) = 1
       /\ outcome.value[1] \in EligibleFree

Distinct(r) == \A j, k \in DOMAIN r : j # k => r[j] # r[k]

C11_ExactlyCountDistinct ==
  (api = "findPorts" /\ outcome.kind = "resolved") =>
    /\ Len(outcome.value) = count
    /\ Distinct(outcome.value)

\* findPorts resolved to two ports that are not adjacent: an eligible port
\* between them was occupied.
C11_Witness ==
  /\ api = "findPorts" /\ pc = "done" /\ ~consecutive
  /\ outcome.kind = "resolved" /\ count = 2
  /\ outcome.value[2] > outcome.value[1] + 1

\* ------------------------------------------------------------------------
\* C12: isPortAvailable, findPort and findPorts reject invalid input before
\* any socket operation: a port, start or end that is not an integer in
\* [1, 65535] gives INVALID_PORT, start > end gives INVALID_RANGE, a
\* non-integer or non-positive count gives INVALID_COUNT; no probe is issued
\* and no value is coerced.  Where two of the conditions hold at once the
\* error is that of one of them: the count is tested first, the ports next.
\* ------------------------------------------------------------------------
Validating == api \in {"isPortAvailable", "findPort", "findPorts"}

\* v is not an integer in [1, 65535].
NotAPort(v) == ~v.integer \/ v.val < 1 \/ v.val > 65535

BadCount == api = "findPorts" /\ (~input.count.integer \/ input.count.val <= 0)
BadPort ==
  \/ api = "isPortAvailable" /\ NotAPort(input.port)
  \/ api \in {"findPort", "findPorts"}
       /\ (NotAPort(input.start) \/ NotAPort(input.end))
BadRange ==
  /\ api \in {"findPort", "findPorts"}
  /\ ~BadPort
  /\ input.start.val > input.end.val

\* A probe is outstanding or has settled.
ProbeIssued ==
  \/ probeLog # {}
  \/ pc \in {"check_await", "seq_await", "par_await"}

RejectedWith(code) ==
  /\ pc = "done"
  /\ outcome.kind = "rejected"
  /\ outcome.name = "PortFinderError"
  /\ outcome.code = code
  /\ ~ProbeIssued

\* The values the call works with are the numbers the caller passed.
Uncoerced ==
  /\ api = "isPortAvailable" => port = input.port.val
  /\ api \in {"findPort", "findPorts"} =>
       start = input.start.val /\ end = input.end.val
  /\ api = "findPorts" => count = input.count.val

C12_InvalidInputRejected ==
  Validating =>
    /\ BadCount => RejectedWith("INVALID_COUNT")
    /\ (BadPort /\ ~BadCount) => RejectedWith("INVALID_PORT")
    /\ (BadRange /\ ~BadCount) => RejectedWith("INVALID_RANGE")
    /\ ~(BadCount \/ BadPort \/ BadRange) =>
         /\ Uncoerced
         /\ outcome.kind = "rejected" =>
              outcome.code \notin {"INVALID_PORT", "INVALID_RANGE", "INVALID_COUNT"}

\* findPorts was given a non-integral count and a range with a free port:
\* it rejected with INVALID_COUNT and probed nothing.
C12_Witness ==
  /\ api = "findPorts" /\ ~input.count.integer
  /\ ~BadPort /\ ~BadRange
  /\ \E p \in free : p >= input.start.val /\ p <= input.end.val
  /\ RejectedWith("INVALID_COUNT")

\* ------------------------------------------------------------------------
\* C13, as stated: through every exported entry point, checkPort, scanPorts
\* and scanPortsParallel included, no probe is attempted on a port value
\* outside [1, 65535] or non-integral.
\* ------------------------------------------------------------------------
ProbedPorts ==
  {r.port : r \in probeLog}
    \cup (IF pc \in {"check_await", "seq_await"} THEN {port} ELSE {})
    \cup (IF pc = "par_await" THEN {batch[k] : k \in DOMAIN batch} ELSE {})

C13_AsStated == \A p \in ProbedPorts : p >= 1 /\ p <= 65535

\* C13, amended: isPortAvailable, findPort and findPorts probe only
\* integers of [1, 65535] that the caller passed as such; the exported
\* checkPort probes the port it is given, whatever its value.
C13_Amended ==
  /\ (Validating /\ ProbeIssued) =>
       /\ ~(BadCount \/ BadPort \/ BadRange)
       /\ \A p \in ProbedPorts : p >= 1 /\ p <= 65535
  /\ (api = "checkPort" /\ pc = "done") => input.port.val \in ProbedPorts

\* isPortAvailable(0) rejected without a probe although the system had a
\* port to hand out for port 0.
C13_Witness ==
  /\ api = "isPortAvailable" /\ pc = "done"
  /\ input.port = Whole(0) /\ AnyPort \in free
  /\ outcome.kind = "rejected" /\ ~ProbeIssued

\* ------------------------------------------------------------------------
\* C14: if a name of the validators list of findPort / findPorts resolves
\* to neither a custom nor a built-in predicate, the scan fails with
\* 'Unknown validator', for every range, every Exclusion Set and every
\* position of the name; the call never ends with a port, with
\* NO_AVAILABLE_PORT or with INSUFFICIENT_PORTS instead.
\* ------------------------------------------------------------------------
C14_UnknownNameFailsScan ==
  (/\ api \in {"findPort", "findPorts"} /\ pc = "done"
   /\ validatePortRange(start, end) = "ok" /\ count >= 1
   /\ ~NamesResolve)
    => outcome = UnknownValidator

\* ------------------------------------------------------------------------
\* C15: when findPort or findPorts (in either mode) fails because of an
\* unknown predicate name, no probe has been issued before the failure.
\* (The registry is only changed between calls in this model.)
\* ------------------------------------------------------------------------
C15_UnknownNameBeforeProbes ==
  (api \in {"findPort", "findPorts"} /\ outcome = UnknownValidator)
    => probeLog = {}

\* findPorts in consecutive mode failed on the unknown name at the second
\* port of a range of free ports, having skipped an excluded first port.
C15_Witness ==
  /\ api = "findPorts" /\ consecutive /\ pc = "done"
  /\ outcome = UnknownValidator
  /\ start \in exclude /\ port > start
  /\ \A p \in start..end : p \in free

\* ------------------------------------------------------------------------
\* C16: every error thrown by a public function is a PortFinderError with
\* one of the codes INVALID_PORT, INVALID_RANGE, INVALID_COUNT,
\* NO_AVAILABLE_PORT, INSUFFICIENT_PORTS (here: every rejection of findPort
\* and findPorts).
\* ------------------------------------------------------------------------
ErrorCodes ==
  {"INVALID_PORT", "INVALID_RANGE", "INVALID_COUNT", "NO_AVAILABLE_PORT",
   "INSUFFICIENT_PORTS"}

C16_AllErrorsArePortFinderErrors ==
  (api \in {"findPort", "findPorts"} /\ outcome.kind = "rejected") =>
    /\ outcome.name = "PortFinderError"
    /\ outcome.code \in ErrorCodes

\* ------------------------------------------------------------------------
\* C17: checkPort never fails with an error: after 'listening', after an
\* 'error' event with any code and after a synchronous exception of listen
\* its promise is resolved exactly once, with true only on 'listening' and
\* with false otherwise, and it is never rejected.
\* ------------------------------------------------------------------------
C17_ProbeNeverFails ==
  \A c \in Callers :
     /\ cp[c].result # "rejected"
     /\ cp[c].stage = "returned" =>
          /\ cp[c].resolves = 1
          /\ cp[c].result \in {"true", "false"}
          /\ cp[c].result = "true" <=> cp[c].event = "listening"
     /\ cp[c].stage # "returned" =>
          cp[c].resolves = 0 /\ cp[c].result = "pending"

\* One call returned false after an error that is neither EADDRINUSE nor
\* EACCES, another after a synchronous exception of listen.
C17_Witness ==
  /\ \E c \in Callers :
       /\ cp[c].stage = "returned" /\ cp[c].event = "EOTHER"
       /\ cp[c].result = "false"
  /\ \E c \in Callers :
       /\ cp[c].stage = "returned" /\ cp[c].event = "exception"
       /\ cp[c].result = "false"

\* ------------------------------------------------------------------------
\* C18: on every exit path of checkPort the socket is released before the
\* result is delivered: whenever a call has returned its boolean, the
\* socket it opened is no longer open, not merely scheduled to close.
\* ------------------------------------------------------------------------
C18_ReleasedBeforeResult ==
  \A c \in Callers :
     cp[c].stage = "returned" => ~\E s \in sockets : s.owner = c

\* ------------------------------------------------------------------------
\* C19, as stated: no caller observes the transient binding of another
\* probe: a probe of an otherwise-free port is never reported unavailable
\* because of a concurrent probe of the same port.
\* ------------------------------------------------------------------------
C19_AsStated == \A c \in Callers : cp[c].blockedBy # "other"

\* C19, amended: a port is bound by one socket at a time, so a probe sees
\* the binding of another probe; the probe of an otherwise-free port
\* reports it unavailable exactly when its bind attempt met a socket that a
\* probe still held on that port, and probes of different ports do not
\* affect each other.
C19_Amended ==
  /\ \A s, t \in sockets : s.port = t.port => s = t
  /\ \A c \in Callers :
       (cp[c].stage = "returned" /\ cp[c].port \in free) =>
         /\ cp[c].result = "false" <=> cp[c].blockedBy \in {"self", "other"}
         /\ cp[c].blockedBy = "other" => cp[c].event = "EADDRINUSE"

\* Two callers probed the same free port concurrently: one was told it is
\* available, the other that it is not.
C19_Witness ==
  \E c, d \in Callers :
     /\ c # d /\ cp[c].port = cp[d].port /\ cp[c].port \in free
     /\ cp[c].stage = "returned" /\ cp[c].result = "true"
     /\ cp[d].stage = "returned" /\ cp[d].result = "false"
     /\ cp[d].blockedBy = "other"

\* ------------------------------------------------------------------------
\* C20: probing the same free port twice in immediate succession, the
\* second call starting after the first has returned, returns true both
\* times (no other caller is active).
\* ------------------------------------------------------------------------
C20_ProbeIsIdempotent ==
  \A c \in Callers :
     (/\ cp[c].stage = "returned" /\ cp[c].repeat
      /\ cp[c].port \in free
      /\ \A d \in Callers \ {c} : cp[d] = NoCall)
       => cp[c].result = "true"

\* ------------------------------------------------------------------------
\* C21: scanPortsParallel called with maxConcurrency = k never has more
\* than k probes outstanding at the same time.
\* ------------------------------------------------------------------------
Outstanding ==
  CASE pc = "par_await" ->
         Cardinality({k \in DOMAIN results : results[k] = "pending"})
    [] pc \in {"seq_await", "check_await"} -> 1
    [] OTHER -> 0

C21_WindowBound ==
  (api = "scanPortsParallel") => Outstanding <= maxConcurrency

\* A full window is outstanding while further candidates wait.
C21_Witness ==
  /\ api = "scanPortsParallel" /\ pc = "par_await"
  /\ Outstanding = maxConcurrency
  /\ Len(ports) > i + maxConcurrency

\* ------------------------------------------------------------------------
\* C22: the result of the parallel scanner is in strictly ascending port
\* order whatever the order in which the probes of a window complete, and
\* with availability fixed its content is the same for every completion
\* order: the lowest eligible free ports of the range, up to count.
\* ------------------------------------------------------------------------
Parallel == api \in {"scanPortsParallel", "findPort"} \/ (api = "findPorts" /\ ~consecutive)

StrictlyAscending(r) == \A j, k \in DOMAIN r : j < k => r[j] < r[k]

Prefix(r, n) == [k \in 1..(IF n < Len(r) THEN n ELSE Len(r)) |-> r[k]]

C22_AscendingWhateverTheCompletionOrder ==
  Parallel =>
    /\ StrictlyAscending(found)
    /\ (pc = "return" /\ Stable) =>
         found = Prefix(Ascending(EligibleFree), count)

\* Two ports were collected from one window whose higher port settled first.
C22_Witness ==
  /\ api = "scanPortsParallel" /\ pc = "par_await"
  /\ Len(batch) >= 2
  /\ results[1] = "pending" /\ results[2] = "true"
  /\ batch[1] \in free /\ count >= 2

\* ------------------------------------------------------------------------
\* C23: applyValidators(port, names) over names that all resolve returns
\* true exactly when every named predicate accepts the port; it calls the
\* predicates from left to right and none after the first that rejects;
\* an empty list returns true.
\* ------------------------------------------------------------------------
Accepts(name, p) == CallFn(getValidator(name), p)

AllResolve(names) == \A k \in DOMAIN names : getValidator(names[k]) # "undefined"

\* Index of the first name whose predicate rejects p, or the length of the
\* list when none does.
LastCalled(names, p) ==
  IF \E k \in DOMAIN names : ~Accepts(names[k], p)
  THEN CHOOSE k \in DOMAIN names :
         /\ ~Accepts(names[k], p)
         /\ \A j \in 1..(k - 1) : Accepts(names[j], p)
  ELSE Len(names)

C23_AllAcceptLeftToRight ==
  (api = "applyValidators" /\ AllResolve(input.validatorNames)) =>
    LET names == input.validatorNames
        p == input.port
    IN /\ outcome = Returned(\A k \in DOMAIN names : Accepts(names[k], p))
       /\ called = [k \in 1..LastCalled(names, p) |-> getValidator(names[k])]
       /\ names = <<>> => outcome = Returned(TRUE)

\* The first of two predicates rejected and the second was not called.
C23_Witness ==
  /\ api = "applyValidators"
  /\ Len(input.validatorNames) = 2
  /\ AllResolve(input.validatorNames)
  /\ outcome = Returned(FALSE)
  /\ Len(called) = 1
  /\ ~Accepts(input.validatorNames[2], input.port)

\* ------------------------------------------------------------------------
\* C24: a custom predicate takes precedence over a built-in of the same
\* name: after addValidator(name, f), getValidator(name) returns f;
\* getValidator returns the built-in when no custom predicate is registered
\* under the name, and undefined when neither exists.
\* ------------------------------------------------------------------------
CustomRegistered(name) == validators[name] # "undefined"

C24_CustomThenBuiltInThenUndefined ==
  /\ (api = "addValidator" /\ outcome.kind = "returned") =>
       getValidator(input.name) = input.validate
  /\ (api = "getValidator") =>
       outcome = Returned(IF CustomRegistered(input.name)
                          THEN validators[input.name]
                          ELSE IF input.name \in BuiltInNames
                          THEN input.name
                          ELSE "undefined")

\* ------------------------------------------------------------------------
\* C25: after removeValidator(name) for any non-empty name,
\* getValidator(name) returns undefined; removing a name that is not
\* registered does not throw and changes nothing.
\* ------------------------------------------------------------------------
RemoveStep(name) ==
  api' = "removeValidator" /\ input' = [name |-> name] /\ name # ""

C25_AsStated ==
  [][\A name \in RegistryNames : RemoveStep(name) =>
       /\ outcome'.kind = "returned"
       /\ getValidator(name)' = "undefined"
       /\ ~CustomRegistered(name) => validators' = validators]_vars

\* C25 as the code has it: removeValidator(name) for a non-empty name does
\* not throw and removes the custom predicate registered under name and
\* nothing else (nothing at all when none is registered); afterwards
\* getValidator(name) returns builtInValidators[name], which is the
\* built-in predicate for a built-in name.
C25_Amended ==
  [][\A name \in RegistryNames : RemoveStep(name) =>
       /\ outcome'.kind = "returned"
       /\ ~CustomRegistered(name)'
       /\ getValidator(name)' = builtInValidators(name)
       /\ \A n \in DOMAIN validators :
            n # name => validators'[n] = validators[n]
       /\ ~CustomRegistered(name) => validators' = validators]_vars

\* The custom predicate shadowing a built-in was removed and the name
\* resolves to the built-in, while another custom predicate is still there.
C25_Witness ==
  /\ api = "removeValidator"
  /\ input.name \in BuiltInNames
  /\ outcome.kind = "returned"
  /\ getValidator(input.name) = input.name
  /\ \E n \in DOMAIN validators : CustomRegistered(n)

\* ------------------------------------------------------------------------
\* C26: for every --count value that is not a positive integer (zero,
\* negative, non-numeric) the command line exits with code 1 and an error
\* message, without coercing the count and without printing a port.
\* ------------------------------------------------------------------------

\* The text after --count, when the flag is given.
CountText ==
  IF \E k \in 1..(Len(cli.argv) - 1) : cli.argv[k] = "--count"
  THEN cli.argv[(CHOOSE k \in 1..(Len(cli.argv) - 1) : cli.argv[k] = "--count") + 1]
  ELSE "none"

\* The text is the decimal notation of a positive integer.
PositiveIntegerText(s) ==
  LET t == Characters(s)
  IN /\ t # <<>>
     /\ \A k \in DOMAIN t : IsDigit(t[k])
     /\ Decimal(t) > 0

InvalidCountGiven ==
  cli.stage # "none" /\ CountText # "none" /\ ~PositiveIntegerText(CountText)

C26_InvalidCountExitsWithError ==
  (InvalidCountGiven /\ cli.stage = "exited") =>
    /\ cli.exitCode = 1
    /\ cli.stderr # <<>>
    /\ cli.stdout = <<>>

\* ------------------------------------------------------------------------
\* C27: scanPortsParallel probes the candidates window by window, in
\* candidate order, and a window is issued only when every probe of the
\* one before has settled; no window is issued once the result has count
\* ports; the window in which count is reached is probed completely, its
\* surplus free ports are dropped, and no candidate after it is probed.
\* ------------------------------------------------------------------------
SettledPorts == {r.port : r \in probeLog}

\* The first n candidates.
Candidates(n) == {ports[k] : k \in 1..(IF n < Len(ports) THEN n ELSE Len(ports))}

\* The parallel scanner was entered and is past its filter pass.
InWindows ==
  maxConcurrency >= 1 /\ pc \in {"par_loop", "par_await", "return", "done"}

C27_WindowsWithBarrier ==
  (Parallel /\ InWindows) =>
    /\ i % maxConcurrency = 0
    /\ Len(found) <= count
    /\ (pc # "par_await") =>
         /\ \A k \in DOMAIN results : results[k] # "pending"
         /\ SettledPorts = Candidates(i)
    /\ (pc = "par_await") =>
         /\ Len(found) < count
         /\ batch = Slice(ports, i, i + maxConcurrency)
         /\ SettledPorts =
              Candidates(i) \cup {batch[k] : k \in {j \in DOMAIN results :
                                                      results[j] # "pending"}}

\* The scan returned count ports from a window that held a further free
\* port, and candidates after that window were never probed.
C27_Witness ==
  /\ api = "scanPortsParallel" /\ pc = "return"
  /\ Len(found) = count
  /\ i < Len(ports)
  /\ \E r \in probeLog :
       r.available /\ \A k \in DOMAIN found : found[k] # r.port

\* ------------------------------------------------------------------------
\* C28: scanPorts probes in ascending port order, one port at a time: at
\* most one probe is outstanding in any state, and the probe of a port q is
\* issued only after the probe of every eligible port p < q of the range
\* has settled.
\* ------------------------------------------------------------------------
C28_OneAtATimeAscending ==
  (Sequential /\ pc # "idle") =>
    /\ Outstanding <= 1
    /\ \A p \in SettledPorts : p >= start /\ p <= port
    /\ (pc = "seq_await") =>
         /\ port \notin SettledPorts
         /\ \A p \in start..(port - 1) : Eligible(p) => p \in SettledPorts

\* The probe of the third port is outstanding after those of the two ports
\* below it settled.
C28_Witness ==
  /\ api = "scanPorts" /\ pc = "seq_await"
  /\ port = start + 2
  /\ SettledPorts = {start, start + 1}

\* ------------------------------------------------------------------------
\* C29: scanPorts stops as soon as count is satisfied: in non-consecutive
\* mode no port above the count-th available port is probed or handed to
\* the predicate, in consecutive mode none above the last port of the block.
\* The ports the loop body has handled are start..port-1, and port itself
\* while its probe is outstanding.
\* ------------------------------------------------------------------------
Satisfied == count >= 1 /\ Len(found) >= count

C29_StopsWhenSatisfied ==
  (Sequential /\ pc # "idle" /\ Satisfied) =>
    /\ pc \in {"seq_loop", "return", "done"}
    /\ port <= found[count] + 1
    /\ \A p \in SettledPorts : p <= found[count]

\* The scan returned count ports and ports above the last one were left
\* unprobed.
C29_Witness ==
  /\ api = "scanPorts" /\ pc = "return" /\ ~consecutive
  /\ Satisfied
  /\ found[count] < end
  /\ SettledPorts # {}

\* ------------------------------------------------------------------------
\* C30: in consecutive mode of scanPorts every excluded port, every
\* rejected port and every unavailable port resets the run length to zero
\* and the next eligible free port starts a new run; after port p has been
\* processed with run length n > 0 the tentative block start is p - n + 1
\* and the ports p-n+1..p are all eligible and were probed available.
\* ------------------------------------------------------------------------

\* The port breaks a run.
Breaks(p) == p \in exclude \/ ~Eligible(p) \/ ProbedBusy(p)

C30_RunInvariant ==
  (Sequential /\ consecutive /\ pc = "seq_loop") =>
    LET p == port - 1
        n == consecutiveCount
    IN /\ n >= 0 /\ n <= p - start + 1
       /\ (p >= start /\ Breaks(p)) => n = 0
       /\ (n > 0) =>
            /\ consecutiveStart = p - n + 1
            /\ \A q \in (p - n + 1)..p : Eligible(q) /\ ProbedFree(q)
            /\ (p - n >= start) => Breaks(p - n)

\* A run was broken and a new one started after the break.
C30_Witness ==
  /\ api = "scanPorts" /\ consecutive /\ pc = "seq_loop"
  /\ consecutiveCount = 1
  /\ consecutiveStart = start + 2
  /\ ProbedFree(start) /\ Breaks(start + 1)

\* ------------------------------------------------------------------------
\* C31, as stated: the filter pass of scanPortsParallel evaluates the
\* predicate exactly once for every port of the range, however early the
\* probing ends, and all of it before the first probe is issued.
\* ------------------------------------------------------------------------
Filtered == pc \in {"par_loop", "par_await", "return", "done"}

C31_AsStated ==
  (api = "scanPortsParallel" /\ validator.defined /\ NamesResolve) =>
    /\ (pc = "par_filter") => (evaluated = <<>> /\ probeLog = {})
    /\ Filtered => evaluated = RangeSeq(start, end)

\* C31, amended: the filter pass evaluates the predicate exactly once for
\* every port of the range that is not in the Exclusion Set, in ascending
\* order, and never for an excluded port; a predicate that throws ends the
\* pass at that port and the scan without a probe.  All evaluations happen
\* before the first probe, and their number does not depend on how early
\* the probing ends.
NonExcluded == SelectSeq(RangeSeq(start, end), LAMBDA p : p \notin exclude)

Throwing == {p \in start..end : p \notin exclude /\ CallValidator(validator, p) = "throw"}

C31_Amended ==
  (api = "scanPortsParallel") =>
    /\ (pc = "par_filter") => (evaluated = <<>> /\ probeLog = {})
    /\ (Filtered /\ ~validator.defined) => evaluated = <<>>
    /\ (Filtered /\ validator.defined /\ Throwing = {}) =>
         evaluated = NonExcluded
    /\ (Filtered /\ validator.defined /\ Throwing # {}) =>
         /\ evaluated = SelectSeq(NonExcluded,
                                   LAMBDA p : \A t \in Throwing : p <= t)
         /\ probeLog = {} /\ pc = "done"

\* The scan ended after its first window with candidates left unprobed,
\* the predicate having been evaluated on every non-excluded port and not
\* on the excluded one.
C31_Witness ==
  /\ api = "scanPortsParallel" /\ pc = "return"
  /\ validator.defined
  /\ i < Len(ports)
  /\ exclude \cap (start..end) # {}
  /\ Len(evaluated) = Cardinality((start..end) \ exclude)
  /\ Len(evaluated) > Cardinality(SettledPorts)

\* ------------------------------------------------------------------------
\* C32: within one call of scanPorts or scanPortsParallel no port is probed
\* more than once, and only ports of [start, end] that are not excluded and
\* that the predicate accepts are probed.  A port whose probe is
\* outstanding has no settled probe, and the outstanding probes are on
\* different ports.
\* ------------------------------------------------------------------------
PendingPorts ==
  CASE pc = "seq_await" -> {port}
    [] pc = "par_await" -> {batch[k] : k \in {j \in DOMAIN results :
                                                 results[j] = "pending"}}
    [] OTHER -> {}

C32_ProbedOnceAndEligible ==
  DirectScan =>
    /\ \A p \in SettledPorts \cup PendingPorts :
         p >= start /\ p <= end /\ p \notin exclude /\ Eligible(p)
    /\ PendingPorts \cap SettledPorts = {}
    /\ (pc = "par_await") => Distinct(batch)

\* Two windows were probed in a range that holds an excluded port.
C32_Witness ==
  /\ api = "scanPortsParallel" /\ pc = "par_await"
  /\ i > 0
  /\ SettledPorts # {} /\ PendingPorts # {}
  /\ exclude \cap (start..end) # {}

\* ------------------------------------------------------------------------
\* C33: with availability fixed during the scan, scanPorts in
\* non-consecutive mode and scanPortsParallel with any maxConcurrency >= 1
\* return the same result for the same range, exclusions, predicate and
\* count: the first min(count, m) of the m eligible free ports in ascending
\* order (and both fail alike when the predicate throws); hence findPort
\* returns the lowest eligible free port of the range.
\* ------------------------------------------------------------------------
PlainScan == (api = "scanPorts" /\ ~consecutive) \/ api = "scanPortsParallel"

\* The result both scanners owe for the arguments and environment of the
\* call.
LowestEligibleFree == Prefix(Ascending(EligibleFree), count)

C33_ScannersAgree ==
  (Stable /\ pc = "done") =>
    /\ PlainScan =>
         outcome = IF Throwing = {} THEN Resolved(LowestEligibleFree)
                   ELSE UnknownValidator
    /\ (api = "findPort" /\ NamesResolve /\ validatePortRange(start, end) = "ok") =>
         IF EligibleFree = {}
         THEN outcome.kind = "rejected" /\ outcome.code = "NO_AVAILABLE_PORT"
         ELSE outcome = Resolved(<<Ascending(EligibleFree)[1]>>)

\* A scan with a window of one returned two ports and passed an eligible
\* port that was occupied.
C33_Witness ==
  /\ api = "scanPortsParallel" /\ maxConcurrency = 1
  /\ Stable /\ pc = "done"
  /\ count = 2 /\ outcome = Resolved(LowestEligibleFree)
  /\ Len(LowestEligibleFree) = 2
  /\ \E p \in start..end : Eligible(p) /\ p \notin free /\ p < found[2]

\* ------------------------------------------------------------------------
\* C34: in consecutive mode scanPorts is all-or-nothing: its result has
\* length 0 or count, never a partial run; when the range is exhausted
\* without a full block the result is empty even if free ports were seen,
\* and findPorts then reports found = 0.
\* ------------------------------------------------------------------------
C34_AllOrNothing ==
  (Sequential /\ consecutive /\ pc # "idle") =>
    /\ Len(found) \in {0, count}
    /\ (pc \in {"return", "done"} /\ Len(found) = count) => Adjacent(found)
    /\ (api = "findPorts" /\ pc = "done" /\ outcome.kind = "rejected"
         /\ outcome.code = "INSUFFICIENT_PORTS") =>
         outcome.details = [requested |-> count, found |-> 0, ports |-> <<>>]

\* The range was exhausted with an open run: free ports were seen, the
\* result is empty and findPorts reported found = 0.
C34_Witness ==
  /\ api = "findPorts" /\ consecutive /\ pc = "done"
  /\ consecutiveCount > 0
  /\ \E p \in start..end : ProbedFree(p)
  /\ outcome.kind = "rejected" /\ outcome.code = "INSUFFICIENT_PORTS"
  /\ outcome.details.found = 0

\* ------------------------------------------------------------------------
\* C35: provided every probe eventually settles, both scanners terminate
\* for every valid range, every count >= 1 and every integer
\* maxConcurrency: a scan that was called eventually returns.
\* ------------------------------------------------------------------------
C35_ScanTerminates == (DirectScan /\ pc # "done") ~> (pc = "done")

\* ------------------------------------------------------------------------
\* C36: a scan leaves its inputs and the registry unchanged: from the call
\* on, no step of scanPorts, scanPortsParallel, findPort or findPorts
\* changes the exclusion set, the predicate, the options the caller passed
\* or an entry of the validator registry.
\* ------------------------------------------------------------------------
C36_ScanFrame ==
  [][pc # "idle" =>
       /\ exclude' = exclude
       /\ validator' = validator
       /\ input' = input
       /\ validators' = validators]_vars

\* A findPorts call with a non-empty exclusion list and a validator list has
\* run to its end while a custom validator was registered; the scan skipped
\* an excluded port.
C36_Witness ==
  /\ api = "findPorts" /\ pc = "done"
  /\ exclude # {} /\ validator.defined
  /\ \E n \in CustomNames : CustomRegistered(n)
  /\ \E p \in exclude : start <= p /\ p <= end

\* ------------------------------------------------------------------------
\* C37: in --check mode the command line exits with code 0 if and only if
\* the checked port is valid and the probe reports it available; it exits
\* with code 1 when the port is in use and when the port number is invalid,
\* and it never starts a port scan.
\* ------------------------------------------------------------------------
\* options.check !== undefined
CheckMode == cli.stage # "none" /\ cli.options.check # Undefined

ValidCheck == validatePortValue(cli.options.check) = "ok"

\* The probe of the checked port told available.
ReportedAvailable ==
  [port |-> cli.options.check.val, available |-> TRUE] \in probeLog

ReportedInUse ==
  [port |-> cli.options.check.val, available |-> FALSE] \in probeLog

RangeValidated ==
  \/ api = "findPort"
  \/ api = "findPorts" /\ input.count.integer /\ input.count.val > 0

IntegerPort(v) == v.integer /\ 1 <= v.val /\ v.val <= 65535

Thrown38(code) ==
  pc = "done" /\ outcome.kind = "rejected" /\ outcome.code = code

C38_ValidatePortRange ==
  RangeValidated =>
    LET s == input.start
        e == input.end
        bothValid == IntegerPort(s) /\ IntegerPort(e)
    IN /\ (bothValid /\ s.val <= e.val)
            <=> ~(Thrown38("INVALID_PORT") \/ Thrown38("INVALID_RANGE"))
       /\ ~bothValid <=> Thrown38("INVALID_PORT")
       /\ (bothValid /\ s.val > e.val) <=> Thrown38("INVALID_RANGE")
       /\ Thrown38("INVALID_PORT") =>
            outcome.details = [port |-> IF IntegerPort(s) THEN e ELSE s]
       /\ Thrown38("INVALID_RANGE") =>
            outcome.details = [start |-> s, end |-> e]

\* An endpoint that is no port with start > end: INVALID_PORT, not
\* INVALID_RANGE.
C38_Witness ==
  /\ RangeValidated
  /\ input.start.val > input.end.val
  /\ ~IntegerPort(input.start) /\ IntegerPort(input.end)
  /\ Thrown38("INVALID_PORT")

====
